---- MODULE Spec2Model ----
(***************************************************************************)
(* Verification model of the reversion-hunter four-layer option scanner.   *)
(*                                                                         *)
(* Numbers.  The program computes in binary floating point.  The model     *)
(* computes exactly: money is an integer number of ticks of half a cent    *)
(* (so that the mid price (bid + ask) / 2 of two whole-cent quotes is      *)
(* exact), probabilities of profit are integer percents, deltas, thetas    *)
(* and gammas are integer hundredths, max_position_size_percent is in      *)
(* tenths of a percent, and every other quotient the program forms is kept *)
(* as an exact fraction <<num, den>> with den > 0 (see Rat).  Rounding     *)
(* error of the float arithmetic is not modelled.                          *)
(*                                                                         *)
(* Specifications.                                                         *)
(*   Spec       the Layer-4 sector pass (filter_by_sector_limits and the   *)
(*              scanner page's truncation), one loop iteration per step.   *)
(*   SpecRisk   calls of the expected-value calculators and of the Layer-4 *)
(*              evaluation (evaluate_spread, create_trade_signal,          *)
(*              scan_spreads) on a configured RiskManagementScanner, and   *)
(*              of the Layer-3 spread builders.                            *)
(*   SpecCalc   calls of the models' constructors and predicates and of the *)
(*              calculators that need no configured scanner.               *)
(*   SpecScan   one scan of a universe: scan_universe, scan_stocks,        *)
(*              scan_put_spreads and scan_spreads, one layer per step.     *)
(*   SpecPortfolio  the position tracker: Trade and Portfolio operations   *)
(*              on the Trade objects of a scan, one operation per step.    *)
(*   SpecLedger the Portfolio's own operations alone (add_trade,           *)
(*              close_trade, update_all_positions).                        *)
(***************************************************************************)
EXTENDS Integers, Sequences, FiniteSets, TLC

VARIABLES
    \* ---- Layer-4 sector pass (RiskManagementScanner.filter_by_sector_limits)
    pc,                    \* position of the pass: "start", "loop" or "done"
    stocks_by_symbol,      \* dict symbol -> Stock handed to the pass
    trade_signals,         \* the ranked input list
    existing_positions,    \* the open positions handed to the pass
    max_sector_positions,  \* RiskManagementScanner.max_sector_positions
    max_positions,         \* RiskManagementScanner.max_positions
    sector_counts,         \* the local dict sector -> count
    filtered_trades,       \* the local result list
    idx,                   \* number of input signals consumed by the loop
    session_trade_signals, \* st.session_state['trade_signals'] of the scanner page
    \* ---- calls on a RiskManagementScanner / ExpectedValueCalculator
    risk_cfg,              \* the scanner's configuration (set by __init__)
    call_fn,               \* the method called, "none" before the call
    call_args,             \* its arguments
    call_result,           \* what it returned or raised
    \* ---- one scan of a universe through the four layers
    scan_pc,               \* the layer to run next: "layer1".."layer4", "done"
    universe,              \* the symbols handed to scan_universe
    data_client,           \* what the data client returns for each symbol
    layer1_stocks,         \* the result of scan_universe
    layer2_stocks,         \* the result of scan_stocks
    all_spreads,           \* symbol -> the result of scan_put_spreads
    scan_signals,          \* what scan_spreads returned or raised
    \* ---- the position tracker's portfolio and the Trade objects it is offered
    trade_objects,         \* trade_id -> the fields of that Trade object
    portfolio              \* st.session_state['portfolio']

filterVars == <<pc, stocks_by_symbol, trade_signals, existing_positions,
                max_sector_positions, max_positions, sector_counts,
                filtered_trades, idx, session_trade_signals>>

riskVars == <<risk_cfg, call_fn, call_args, call_result>>

scanVars == <<scan_pc, universe, data_client, layer1_stocks, layer2_stocks,
              all_spreads, scan_signals>>

portfolioVars == <<trade_objects, portfolio>>

vars == <<filterVars, riskVars, scanVars, portfolioVars>>

\* The value Python calls None.
None == "None"

\* ------------------------------------------------------------------ bounds
MaxSignals == 3
MaxExisting == 1
MaxSectorCap == 2
MaxSpreadsPerStock == 2
MaxChainLen == 3
MaxUniverse == 2

\* ------------------------------------------------- program constants
DefaultMaxPositions == 15
DefaultMaxSectorPositions == 3
TopSignalsShown == 15

\* ------------------------------------------------------------ helpers
Range(s) == {s[i] : i \in DOMAIN s}

SeqsUpTo(S, n) == UNION {[1..k -> S] : k \in 0..n}

Min(a, b) == IF a < b THEN a ELSE b

Max(a, b) == IF a > b THEN a ELSE b

\* s[:n] of Python
Take(s, n) == SubSeq(s, 1, Min(n, Len(s)))

\* ------------------------------------------- Layer-4 sector pass: data
\* Symbols a trade or a position may carry.
Symbols == {"JPM", "DUK", "NOSEC", "GONE"}

Sectors == {"Financials", "Utilities"}

\* Two dicts a caller may pass: "GONE" is in neither; "NOSEC" is a stock whose
\* fundamentals carry no sector in the first and a stock without fundamentals
\* in the second.
StockDictA ==
    [s \in {"JPM", "DUK", "NOSEC"} |->
        IF s = "JPM" THEN [symbol |-> s, fundamentals |-> <<[sector |-> "Financials"]>>]
        ELSE IF s = "DUK" THEN [symbol |-> s, fundamentals |-> <<[sector |-> "Utilities"]>>]
        ELSE [symbol |-> s, fundamentals |-> <<[sector |-> None]>>]]

StockDictB ==
    [s \in {"JPM", "DUK", "NOSEC"} |->
        IF s = "NOSEC" THEN [symbol |-> s, fundamentals |-> <<>>]
        ELSE StockDictA[s]]

StockDicts == {StockDictA, StockDictB}

\* stocks_by_symbol.get(symbol): <<stock>>, or <<>> for Python's None.  (An
\* optional object is a sequence of at most one element throughout.)
DictGet(d, k) == IF k \in DOMAIN d THEN <<d[k]>> ELSE <<>>

\* The sector the pass reads for a symbol, None when the stock, its
\* fundamentals or its sector is missing.
SectorOf(d, symbol) ==
    LET stock == DictGet(d, symbol)
    IN  IF stock = <<>> THEN None
        ELSE IF stock[1].fundamentals = <<>> THEN None
        ELSE stock[1].fundamentals[1].sector

\* sector_counts.get(sector, 0)
CountGet(counts, sector) == IF sector \in DOMAIN counts THEN counts[sector] ELSE 0

\* sector_counts[sector] = n
CountPut(counts, sector, n) ==
    [s \in (DOMAIN counts) \cup {sector} |-> IF s = sector THEN n ELSE counts[s]]

\* The first loop of filter_by_sector_limits: existing positions by sector.
RECURSIVE CountExisting(_, _, _)
CountExisting(d, positions, counts) ==
    IF positions = <<>> THEN counts
    ELSE LET sector == SectorOf(d, Head(positions).symbol)
         IN  CountExisting(d, Tail(positions),
                           IF sector # None
                           THEN CountPut(counts, sector, CountGet(counts, sector) + 1)
                           ELSE counts)

\* The guard of the second loop, off by one: lets a sector take one more
\* position than the limit.
SectorHasRoomInclusive(current_count, limit) == current_count <= limit

\* current_count < self.max_sector_positions
SectorHasRoom(current_count, limit) == current_count < limit

\* The sector bookkeeping of an accepted signal, with the increment lost.
CountAcceptedStale(counts, sector, current_count) ==
    CountPut(counts, sector, current_count)

\* sector_counts[sector] = current_count + 1
CountAccepted(counts, sector, current_count) ==
    CountPut(counts, sector, current_count + 1)

MkSignals(symbols) ==
    [i \in 1..Len(symbols) |-> [trade_id |-> <<"signal", i>>, symbol |-> symbols[i]]]

MkPositions(symbols) ==
    [i \in 1..Len(symbols) |-> [trade_id |-> <<"open", i>>, symbol |-> symbols[i]]]

\* ---------------------------------------- Layer-4 sector pass: actions
\* No scanner call is modelled in this specification.
NoCall ==
    /\ risk_cfg = <<>>
    /\ call_fn = "none"
    /\ call_args = <<>>
    /\ call_result = <<>>

\* No portfolio is modelled in this specification.
NoPortfolio ==
    /\ trade_objects = <<>>
    /\ portfolio = <<>>

\* No scan of a universe is modelled in this specification.
NoScan ==
    /\ scan_pc = "idle"
    /\ universe = <<>>
    /\ data_client = <<>>
    /\ layer1_stocks = <<>>
    /\ layer2_stocks = <<>>
    /\ all_spreads = <<>>
    /\ scan_signals = <<>>

Init ==
    /\ pc = "start"
    /\ stocks_by_symbol \in StockDicts
    /\ trade_signals \in {MkSignals(s) : s \in SeqsUpTo(Symbols, MaxSignals)}
    /\ existing_positions \in {MkPositions(s) : s \in SeqsUpTo(Symbols, MaxExisting)}
    /\ max_sector_positions \in (0..MaxSectorCap) \cup {DefaultMaxSectorPositions}
    /\ max_positions \in {1, DefaultMaxPositions}
    /\ sector_counts = <<>>
    /\ filtered_trades = <<>>
    /\ idx = 0
    /\ session_trade_signals = <<>>
    /\ NoCall
    /\ NoScan
    /\ NoPortfolio

\* filter_by_sector_limits, up to the second loop.
FilterCountExisting ==
    /\ pc = "start"
    /\ sector_counts' = CountExisting(stocks_by_symbol, existing_positions, <<>>)
    /\ filtered_trades' = <<>>
    /\ idx' = 0
    /\ pc' = "loop"
    /\ UNCHANGED <<stocks_by_symbol, trade_signals, existing_positions,
                   max_sector_positions, max_positions, session_trade_signals>>
    /\ UNCHANGED <<riskVars, scanVars, portfolioVars>>

\* One iteration of `for trade in trade_signals`.
FilterStep ==
    /\ pc = "loop"
    /\ idx < Len(trade_signals)
    /\ LET trade == trade_signals[idx + 1]
           sector == SectorOf(stocks_by_symbol, trade.symbol)
           current_count == CountGet(sector_counts, sector)
       IN  IF sector = None
           THEN UNCHANGED <<sector_counts, filtered_trades>>
           ELSE IF SectorHasRoom(current_count, max_sector_positions)
           THEN /\ filtered_trades' = Append(filtered_trades, trade)
                /\ sector_counts' = CountAccepted(sector_counts, sector, current_count)
           ELSE UNCHANGED <<sector_counts, filtered_trades>>
    /\ idx' = idx + 1
    /\ UNCHANGED <<pc, stocks_by_symbol, trade_signals, existing_positions,
                   max_sector_positions, max_positions, session_trade_signals>>
    /\ UNCHANGED <<riskVars, scanVars, portfolioVars>>

\* `return filtered_trades`, and the scanner page keeping trade_signals[:15].
FilterReturn ==
    /\ pc = "loop"
    /\ idx = Len(trade_signals)
    /\ session_trade_signals' = Take(filtered_trades, TopSignalsShown)
    /\ pc' = "done"
    /\ UNCHANGED <<stocks_by_symbol, trade_signals, existing_positions,
                   max_sector_positions, max_positions, sector_counts,
                   filtered_trades, idx>>
    /\ UNCHANGED <<riskVars, scanVars, portfolioVars>>

Next == FilterCountExisting \/ FilterStep \/ FilterReturn

Spec == Init /\ [][Next]_vars

\* ------------------------------------------ Layer-4 sector pass: claims
\* Positions of `trades` whose stock has sector `sector`, counted from the
\* lists themselves (not from sector_counts).
InSector(trades, sector) ==
    {i \in DOMAIN trades : SectorOf(stocks_by_symbol, trades[i].symbol) = sector}

NumInSector(trades, sector) == Cardinality(InSector(trades, sector))

Accepted(trade) == trade \in Range(filtered_trades)

\* C1: after filter_by_sector_limits, for every sector whose existing open
\* positions did not already exceed max_sector_positions, the existing
\* positions in the sector plus the returned signals in the sector are at
\* most max_sector_positions (it holds of every prefix of the pass as well).
C1_SectorLimit ==
    \A sector \in Sectors :
        NumInSector(existing_positions, sector) <= max_sector_positions
        => /\ NumInSector(existing_positions, sector)
                + NumInSector(filtered_trades, sector) <= max_sector_positions
           /\ NumInSector(existing_positions, sector)
                + NumInSector(session_trade_signals, sector) <= max_sector_positions

\* A finished pass in which a sector with an existing position was filled to
\* its limit by a returned signal and a further signal of it was turned away.
C1_Witness ==
    /\ pc = "done"
    /\ \E sector \in Sectors :
        /\ NumInSector(existing_positions, sector) = 1
        /\ NumInSector(filtered_trades, sector) = 1
        /\ max_sector_positions = 2
        /\ \E i \in DOMAIN trade_signals :
            /\ SectorOf(stocks_by_symbol, trade_signals[i].symbol) = sector
            /\ ~Accepted(trade_signals[i])

\* C2: existing open positions plus the signals the Layer-4 pass emits never
\* exceed the portfolio cap max_positions.
C2_PortfolioCap ==
    pc = "done" =>
        Len(existing_positions) + Len(session_trade_signals) <= max_positions

\* C3, the order part: the result is a subsequence of the input, in input
\* order.
C3_Subsequence ==
    /\ \A k \in DOMAIN filtered_trades :
        /\ filtered_trades[k].trade_id[2] \in 1..idx
        /\ filtered_trades[k] = trade_signals[filtered_trades[k].trade_id[2]]
    /\ \A j, k \in DOMAIN filtered_trades :
        j < k => filtered_trades[j].trade_id[2] < filtered_trades[k].trade_id[2]

\* C3, the decision part: the signal considered in a step is accepted exactly
\* when its stock has a sector and the existing positions plus the signals
\* accepted before it in that sector number fewer than max_sector_positions;
\* nothing else is added to or removed from the result.
C3_StepRule ==
    (pc = "loop" /\ idx' = idx + 1) =>
        LET trade == trade_signals[idx + 1]
            sector == SectorOf(stocks_by_symbol, trade.symbol)
            taken == NumInSector(existing_positions, sector)
                        + NumInSector(filtered_trades, sector)
        IN  /\ sector # None =>
                ((filtered_trades' = Append(filtered_trades, trade))
                    <=> taken < max_sector_positions)
            /\ sector = None => filtered_trades' = filtered_trades
            /\ filtered_trades' \in {filtered_trades, Append(filtered_trades, trade)}

\* C3: filter_by_sector_limits is first-come in input order.
C3_FirstCome == [][C3_StepRule]_vars /\ []C3_Subsequence

\* A finished pass where an earlier signal holds the sector's last slot, a
\* later signal of the same sector was turned away, and a still later signal
\* of another sector was accepted.
C3_Witness ==
    /\ pc = "done"
    /\ \E i, j, k \in DOMAIN trade_signals :
        /\ i < j /\ j < k
        /\ Accepted(trade_signals[i])
        /\ ~Accepted(trade_signals[j])
        /\ Accepted(trade_signals[k])
        /\ SectorOf(stocks_by_symbol, trade_signals[i].symbol)
            = SectorOf(stocks_by_symbol, trade_signals[j].symbol)
        /\ SectorOf(stocks_by_symbol, trade_signals[j].symbol) # None
        /\ SectorOf(stocks_by_symbol, trade_signals[k].symbol)
            # SectorOf(stocks_by_symbol, trade_signals[j].symbol)

\* ------------------------------------------------------- exact fractions
RECURSIVE GCD(_, _)
GCD(a, b) == IF b = 0 THEN a ELSE GCD(b, a % b)

\* n / d in lowest terms, with the sign carried by the numerator.  d # 0.
Rat(n, d) ==
    LET g == GCD(IF n < 0 THEN -n ELSE n, IF d < 0 THEN -d ELSE d)
    IN  IF d > 0 THEN <<n \div g, d \div g>> ELSE <<(-n) \div g, (-d) \div g>>

RLt(a, b) == a[1] * b[2] < b[1] * a[2]

RLe(a, b) == a[1] * b[2] <= b[1] * a[2]

REq(a, b) == a[1] * b[2] = b[1] * a[2]

RMin(a, b) == IF RLt(b, a) THEN b ELSE a

RMax(a, b) == IF RLt(a, b) THEN b ELSE a

\* The result of a call: a returned value, or the exception it raised.
Returned(v) == [raised |-> None, value |-> v]

Raised(e) == [raised |-> e, value |-> <<>>]

\* --------------------------------------------- ExpectedValueCalculator
\* profit_factor of the two EV calculators; float('inf') is "inf".
ProfitFactor(pop, win_amount, loss_amount) ==
    IF 100 - pop > 0
    THEN [inf |-> FALSE, value |-> Rat(pop * win_amount, (100 - pop) * loss_amount)]
    ELSE [inf |-> TRUE, value |-> Rat(0, 1)]

\* calculate_credit_spread_ev with the return on capital taken on the
\* premium instead of the maximum loss.
calculate_credit_spread_ev_on_premium(premium_collected, max_loss, probability_of_profit) ==
    LET win_amount == premium_collected
        loss_amount == max_loss
        n == probability_of_profit * win_amount
                - (100 - probability_of_profit) * loss_amount
    IN  [expected_value |-> Rat(n, 100),
         ev_percent |-> IF premium_collected > 0 THEN Rat(n, premium_collected) ELSE Rat(0, 1),
         win_amount |-> win_amount,
         loss_amount |-> loss_amount,
         win_probability |-> Rat(probability_of_profit, 100),
         loss_probability |-> Rat(100 - probability_of_profit, 100),
         profit_factor |-> IF max_loss > 0
                           THEN ProfitFactor(probability_of_profit, win_amount, loss_amount)
                           ELSE [inf |-> FALSE, value |-> Rat(0, 1)]]

\* calculate_credit_spread_ev(premium_collected, max_loss, probability_of_profit):
\* win_prob = pop/100, ev = win_prob*win - loss_prob*loss,
\* ev_percent = ev / max_loss * 100 when max_loss > 0, else 0.
calculate_credit_spread_ev(premium_collected, max_loss, probability_of_profit) ==
    LET win_amount == premium_collected
        loss_amount == max_loss
        n == probability_of_profit * win_amount
                - (100 - probability_of_profit) * loss_amount
    IN  [expected_value |-> Rat(n, 100),
         ev_percent |-> IF max_loss > 0 THEN Rat(n, max_loss) ELSE Rat(0, 1),
         win_amount |-> win_amount,
         loss_amount |-> loss_amount,
         win_probability |-> Rat(probability_of_profit, 100),
         loss_probability |-> Rat(100 - probability_of_profit, 100),
         profit_factor |-> IF max_loss > 0
                           THEN ProfitFactor(probability_of_profit, win_amount, loss_amount)
                           ELSE [inf |-> FALSE, value |-> Rat(0, 1)]]

\* calculate_debit_spread_ev(max_profit, debit_paid, probability_of_profit)
calculate_debit_spread_ev(max_profit, debit_paid, probability_of_profit) ==
    LET win_amount == max_profit
        loss_amount == debit_paid
        n == probability_of_profit * win_amount
                - (100 - probability_of_profit) * loss_amount
    IN  [expected_value |-> Rat(n, 100),
         ev_percent |-> IF debit_paid > 0 THEN Rat(n, debit_paid) ELSE Rat(0, 1),
         win_amount |-> win_amount,
         loss_amount |-> loss_amount,
         win_probability |-> Rat(probability_of_profit, 100),
         loss_probability |-> Rat(100 - probability_of_profit, 100),
         profit_factor |-> IF debit_paid > 0
                           THEN ProfitFactor(probability_of_profit, win_amount, loss_amount)
                           ELSE [inf |-> FALSE, value |-> Rat(0, 1)]]

\* kelly_criterion(win_probability, win_amount, loss_amount), the probability
\* in percent.  b = win/loss; kelly = (b*p - q)/b divides by b, so b = 0
\* raises ZeroDivisionError; max(0, min(kelly * 0.25, 0.05)).
kelly_criterion(win_probability, win_amount, loss_amount) ==
    IF loss_amount = 0 THEN Returned(Rat(0, 1))
    ELSE LET b == Rat(win_amount, loss_amount)
             \* b*p - q, over the common denominator 100 * b[2]
             bp_q == Rat(b[1] * win_probability - (100 - win_probability) * b[2],
                         100 * b[2])
         IN  IF b[1] = 0 THEN Raised("ZeroDivisionError")
             ELSE LET kelly == Rat(bp_q[1] * b[2], bp_q[2] * b[1])
                      quarter == Rat(kelly[1], kelly[2] * 4)
                  IN  Returned(RMax(Rat(0, 1), RMin(quarter, Rat(5, 100))))

\* meets_ev_threshold with the comparison strict.
meets_ev_threshold_strict(premium_collected, max_loss, probability_of_profit, threshold) ==
    LET ev_metrics == calculate_credit_spread_ev(premium_collected, max_loss,
                                                 probability_of_profit)
    IN  [passes |-> RLt(Rat(threshold, 1), ev_metrics.ev_percent),
         ev_metrics |-> ev_metrics]

\* meets_ev_threshold(premium_collected, max_loss, probability_of_profit,
\* threshold), the threshold in percent (threshold * 100 of the program).
meets_ev_threshold(premium_collected, max_loss, probability_of_profit, threshold) ==
    LET ev_metrics == calculate_credit_spread_ev(premium_collected, max_loss,
                                                 probability_of_profit)
    IN  [passes |-> RLe(Rat(threshold, 1), ev_metrics.ev_percent),
         ev_metrics |-> ev_metrics]

\* ------------------------------------------------- models/option.py
\* Ticks (half cents) in a dollar: the unit of every price of the model.
TicksPerDollar == 200

\* An Optional[float] is <<>> (None) or <<x>>.  Python's truth test of it:
\* false for None and for 0.
Truthy(opt) == opt # <<>> /\ opt[1] # 0

Abs(x) == IF x < 0 THEN -x ELSE x

\* data.get(k, default) of the keyword arguments of a constructor
Field(data, k, default) == IF k \in DOMAIN data THEN data[k] ELSE default

\* The fields of PutSpread declared without a default: pydantic requires them
\* among the keyword arguments.
PutSpreadRequired ==
    {"symbol", "short_put", "long_put", "strike_width", "net_premium_collected",
     "max_profit", "max_loss", "breakeven", "dte"}

\* PutSpread(**data): BaseModel.__init__ validates the keyword arguments (a
\* missing required field, strike_width <= 0 or a probability_of_profit
\* outside [0, 100] raise ValidationError), then __init__ derives the spread
\* metrics and the net Greeks from the legs.
PutSpreadNew(data) ==
    IF ~(PutSpreadRequired \subseteq DOMAIN data) THEN Raised("ValidationError")
    ELSE IF ~(data.strike_width > 0) THEN Raised("ValidationError")
    ELSE IF /\ Field(data, "probability_of_profit", <<>>) # <<>>
            /\ data.probability_of_profit[1] \notin 0..100
         THEN Raised("ValidationError")
    ELSE
        LET short_put == data.short_put
            long_put == data.long_put
            strike_width == short_put.strike - long_put.strike
            net(g) == IF Truthy(short_put[g]) /\ Truthy(long_put[g])
                      THEN <<-short_put[g][1] + long_put[g][1]>>
                      ELSE Field(data, g, <<>>)
        IN  Returned(
              [kind |-> "PutSpread",
               symbol |-> data.symbol,
               spread_type |-> "put_spread",
               short_put |-> short_put,
               long_put |-> long_put,
               strike_width |-> strike_width,
               net_premium_collected |-> data.net_premium_collected,
               max_profit |-> data.net_premium_collected,
               max_loss |-> strike_width - data.net_premium_collected,
               breakeven |-> short_put.strike - data.net_premium_collected,
               delta |-> net("delta"),
               theta |-> net("theta"),
               vega |-> net("vega"),
               gamma |-> net("gamma"),
               probability_of_profit |->
                    IF Truthy(short_put.delta)
                    THEN <<100 - Abs(short_put.delta[1])>>
                    ELSE Field(data, "probability_of_profit", <<>>),
               dte |-> data.dte])

\* The fields of CallSpread declared without a default.
CallSpreadRequired ==
    {"symbol", "long_call", "short_call", "strike_width", "net_debit_paid",
     "max_profit", "max_loss", "breakeven", "dte"}

\* CallSpread(**data)
CallSpreadNew(data) ==
    IF ~(CallSpreadRequired \subseteq DOMAIN data) THEN Raised("ValidationError")
    ELSE IF ~(data.strike_width > 0) THEN Raised("ValidationError")
    ELSE
        LET long_call == data.long_call
            short_call == data.short_call
            strike_width == short_call.strike - long_call.strike
            net(g) == IF Truthy(long_call[g]) /\ Truthy(short_call[g])
                      THEN <<long_call[g][1] - short_call[g][1]>>
                      ELSE Field(data, g, <<>>)
        IN  Returned(
              [kind |-> "CallSpread",
               symbol |-> data.symbol,
               spread_type |-> "call_spread",
               long_call |-> long_call,
               short_call |-> short_call,
               strike_width |-> strike_width,
               net_debit_paid |-> data.net_debit_paid,
               max_profit |-> strike_width - data.net_debit_paid,
               max_loss |-> data.net_debit_paid,
               breakeven |-> long_call.strike + data.net_debit_paid,
               delta |-> net("delta"),
               theta |-> net("theta"),
               vega |-> net("vega"),
               gamma |-> net("gamma"),
               probability_of_profit |->
                    IF Truthy(long_call.delta)
                    THEN <<long_call.delta[1]>>
                    ELSE Field(data, "probability_of_profit", <<>>),
               dte |-> data.dte])

\* failures.append(msg) when cond
AppendIf(failures, cond, msg) == IF cond THEN Append(failures, msg) ELSE failures

\* PutSpread.passes_layer3_criteria; premium_to_width_ratio divides by
\* strike_width.
PutPassesLayer3(spread) ==
    IF spread.strike_width = 0 THEN Raised("ZeroDivisionError")
    ELSE
    LET d == spread.short_put.delta
        iv == spread.short_put.iv_percentile
        f1 == IF d = <<>> THEN <<"Missing delta on short put">>
              ELSE AppendIf(<<>>, ~(-20 <= d[1] /\ d[1] <= -15), "Short put delta")
        f2 == AppendIf(f1, spread.theta = <<>> \/ spread.theta[1] <= 5, "Theta")
        f3 == AppendIf(f2, iv = <<>> \/ iv[1] <= 67, "IV percentile")
        f4 == AppendIf(f3, spread.gamma # <<>> /\ Abs(spread.gamma[1]) >= 5, "Gamma")
        f5 == AppendIf(f4, ~(30 <= spread.dte /\ spread.dte <= 45), "DTE")
        f6 == AppendIf(f5, ~(5 * TicksPerDollar <= spread.strike_width
                             /\ spread.strike_width <= 10 * TicksPerDollar),
                       "Strike width")
        f7 == AppendIf(f6, RLt(Rat(spread.net_premium_collected * 100, spread.strike_width),
                               Rat(15, 1)),
                       "Premium/width ratio")
    IN  Returned([passes |-> Len(f7) = 0, failures |-> f7])

\* CallSpread.risk_reward_ratio
risk_reward_ratio(spread) ==
    IF spread.max_loss > 0 THEN Rat(spread.max_profit, spread.max_loss) ELSE Rat(0, 1)

\* CallSpread.passes_layer3_criteria
CallPassesLayer3(spread) ==
    LET d == spread.long_call.delta
        iv == spread.long_call.iv_percentile
        f1 == IF d = <<>> THEN <<"Missing delta on long call">>
              ELSE AppendIf(<<>>, ~(60 <= d[1] /\ d[1] <= 70), "Long call delta")
        f2 == AppendIf(f1, spread.theta # <<>> /\ spread.theta[1] < -3, "Theta")
        f3 == IF iv = <<>> THEN Append(f2, "Missing IV percentile")
              ELSE AppendIf(f2, ~(30 <= iv[1] /\ iv[1] <= 50), "IV percentile")
        f4 == AppendIf(f3, ~(60 <= spread.dte /\ spread.dte <= 90), "DTE")
        f5 == AppendIf(f4, ~(5 * TicksPerDollar <= spread.strike_width
                             /\ spread.strike_width <= 10 * TicksPerDollar),
                       "Strike width")
        f6 == AppendIf(f5, RLt(risk_reward_ratio(spread), Rat(2, 1)), "Risk/reward")
    IN  Returned([passes |-> Len(f6) = 0, failures |-> f6])

\* spread.passes_layer3_criteria() of either family
passes_layer3_criteria(spread) ==
    IF spread.kind = "PutSpread" THEN PutPassesLayer3(spread) ELSE CallPassesLayer3(spread)

\* ----------------------------------------------- calculations/greeks.py
GreekNames == {"delta", "gamma", "theta", "vega", "rho"}

\* GreeksCalculator.calculate_spread_greeks on two dicts of Greeks: both
\* branches compute long - short per Greek; arithmetic on a None raises
\* TypeError.
calculate_spread_greeks(long_greeks, short_greeks, is_credit_spread) ==
    IF \E g \in GreekNames : long_greeks[g] = <<>> \/ short_greeks[g] = <<>>
    THEN Raised("TypeError")
    ELSE Returned([g \in GreekNames |->
            IF is_credit_spread
            THEN <<-short_greeks[g][1] + long_greeks[g][1]>>
            ELSE <<long_greeks[g][1] - short_greeks[g][1]>>])

\* ------------------------------------------- scanner/layer3_greeks.py
\* (c.bid + c.ask) / 2 of a quote with both sides present
MidPrice(c) == (c.bid[1] + c.ask[1]) \div 2

\* x or 0 of an Optional[int]
OrZero(opt) == IF Truthy(opt) THEN opt[1] ELSE 0

\* The condition of the short_put_candidates comprehension.
ShortPutCandidate(c, current_price) ==
    /\ c.delta # <<>>
    /\ -20 <= c.delta[1] /\ c.delta[1] <= -15
    /\ c.strike < current_price
    /\ c.bid # <<>>
    /\ c.ask # <<>>

\* The condition of the long_put_candidates comprehension.
LongPutCandidate(c, short_put) ==
    /\ c.strike < short_put.strike
    /\ 5 * TicksPerDollar <= short_put.strike - c.strike
    /\ short_put.strike - c.strike <= 10 * TicksPerDollar
    /\ c.bid # <<>>
    /\ c.ask # <<>>

\* The body of `for long_put in long_put_candidates`: the spreads list with
\* the spread of the pair appended, or unchanged after `continue`.  The
\* constructor receives exactly the keyword arguments written in the call.
BuildPutPair(spreads, symbol, short_put, long_put) ==
    LET net_premium == MidPrice(short_put) - MidPrice(long_put)
        spread == PutSpreadNew([symbol |-> symbol,
                                short_put |-> short_put,
                                long_put |-> long_put,
                                net_premium_collected |-> net_premium,
                                dte |-> OrZero(short_put.days_to_expiration)])
    IN  IF net_premium <= 0 THEN spreads
        ELSE IF spread.raised # None THEN spreads
        ELSE Append(spreads, spread.value)

RECURSIVE BuildPutLongs(_, _, _, _)
BuildPutLongs(spreads, symbol, short_put, long_put_candidates) ==
    IF long_put_candidates = <<>> THEN spreads
    ELSE BuildPutLongs(BuildPutPair(spreads, symbol, short_put, Head(long_put_candidates)),
                       symbol, short_put, Tail(long_put_candidates))

RECURSIVE BuildPutShorts(_, _, _, _)
BuildPutShorts(spreads, symbol, put_contracts, short_put_candidates) ==
    IF short_put_candidates = <<>> THEN spreads
    ELSE LET short_put == Head(short_put_candidates)
             long_put_candidates ==
                 SelectSeq(put_contracts, LAMBDA c : LongPutCandidate(c, short_put))
         IN  BuildPutShorts(BuildPutLongs(spreads, symbol, short_put, long_put_candidates),
                            symbol, put_contracts, Tail(short_put_candidates))

\* GreeksScanner._build_put_spreads
build_put_spreads(put_contracts, current_price, symbol) ==
    BuildPutShorts(<<>>, symbol, put_contracts,
        SelectSeq(put_contracts, LAMBDA c : ShortPutCandidate(c, current_price)))

\* The condition of the long_call_candidates comprehension
\* (c.strike <= current_price * 1.05).
LongCallCandidate(c, current_price) ==
    /\ c.delta # <<>>
    /\ 60 <= c.delta[1] /\ c.delta[1] <= 70
    /\ c.strike * 100 <= current_price * 105
    /\ c.bid # <<>>
    /\ c.ask # <<>>

\* The condition of the short_call_candidates comprehension.
ShortCallCandidate(c, long_call) ==
    /\ c.strike > long_call.strike
    /\ 5 * TicksPerDollar <= c.strike - long_call.strike
    /\ c.strike - long_call.strike <= 10 * TicksPerDollar
    /\ c.bid # <<>>
    /\ c.ask # <<>>

\* The body of `for short_call in short_call_candidates`.
BuildCallPair(spreads, symbol, long_call, short_call) ==
    LET net_debit == MidPrice(long_call) - MidPrice(short_call)
        spread == CallSpreadNew([symbol |-> symbol,
                                 long_call |-> long_call,
                                 short_call |-> short_call,
                                 net_debit_paid |-> net_debit,
                                 dte |-> OrZero(long_call.days_to_expiration)])
    IN  IF net_debit <= 0 THEN spreads
        ELSE IF spread.raised # None THEN spreads
        ELSE Append(spreads, spread.value)

RECURSIVE BuildCallShorts(_, _, _, _)
BuildCallShorts(spreads, symbol, long_call, short_call_candidates) ==
    IF short_call_candidates = <<>> THEN spreads
    ELSE BuildCallShorts(BuildCallPair(spreads, symbol, long_call, Head(short_call_candidates)),
                         symbol, long_call, Tail(short_call_candidates))

RECURSIVE BuildCallLongs(_, _, _, _)
BuildCallLongs(spreads, symbol, call_contracts, long_call_candidates) ==
    IF long_call_candidates = <<>> THEN spreads
    ELSE LET long_call == Head(long_call_candidates)
             short_call_candidates ==
                 SelectSeq(call_contracts, LAMBDA c : ShortCallCandidate(c, long_call))
         IN  BuildCallLongs(BuildCallShorts(spreads, symbol, long_call, short_call_candidates),
                            symbol, call_contracts, Tail(long_call_candidates))

\* GreeksScanner._build_call_spreads
build_call_spreads(call_contracts, current_price, symbol) ==
    BuildCallLongs(<<>>, symbol, call_contracts,
        SelectSeq(call_contracts, LAMBDA c : LongCallCandidate(c, current_price)))

\* ------------------------------------- scanner/layer4_risk_management.py
\* spread.probability_of_profit or default
PopOr(spread, default) ==
    IF Truthy(spread.probability_of_profit) THEN spread.probability_of_profit[1]
    ELSE default

\* The EV gate, with the minimum itself rejected.
EvBelowMinimumInclusive(ev_percent, min_expected_value) ==
    RLe(ev_percent, Rat(min_expected_value, 1))

\* ev_metrics['ev_percent'] < self.min_expected_value * 100
EvBelowMinimum(ev_percent, min_expected_value) ==
    RLt(ev_percent, Rat(min_expected_value, 1))

\* The position-size gate comparing the premium instead of the capital at risk
\* of a put credit spread.
CapitalAtRiskOfPremium(spread) ==
    IF spread.kind = "PutSpread" THEN spread.net_premium_collected * 100
    ELSE spread.net_debit_paid * 100

\* capital_at_risk of evaluate_spread: max_loss * 100 per contract for a put
\* credit spread, net_debit_paid * 100 for a call debit spread
CapitalAtRisk(spread) ==
    IF spread.kind = "PutSpread" THEN spread.max_loss * 100
    ELSE spread.net_debit_paid * 100

\* self.portfolio_size * (self.max_position_size_percent / 100), the percent
\* in tenths
MaxCapitalPerTrade(cfg) ==
    Rat(cfg.portfolio_size * cfg.max_position_size_percent, 1000)

\* RiskManagementScanner.evaluate_spread: (passes, details) as details
evaluate_spread(cfg, spread, stock) ==
    LET is_put == spread.kind = "PutSpread"
        ev_metrics ==
            IF is_put
            THEN calculate_credit_spread_ev(spread.net_premium_collected,
                                            spread.max_loss, PopOr(spread, 80))
            ELSE calculate_debit_spread_ev(spread.max_profit,
                                           spread.net_debit_paid, PopOr(spread, 65))
        capital_at_risk == CapitalAtRisk(spread)
        position_size ==
            IF is_put THEN spread.net_premium_collected * 100
            ELSE spread.net_debit_paid * 100
        f1 == AppendIf(<<>>, EvBelowMinimum(ev_metrics.ev_percent, cfg.min_expected_value),
                       "EV")
        f2 == AppendIf(f1, RLt(MaxCapitalPerTrade(cfg), Rat(capital_at_risk, 1)),
                       "Capital at risk")
    IN  [passes |-> Len(f2) = 0,
         failures |-> f2,
         expected_value |-> ev_metrics.expected_value,
         ev_percent |-> ev_metrics.ev_percent,
         position_size |-> position_size,
         capital_at_risk |-> capital_at_risk,
         \* max_profit * 0.5 * 100
         take_profit |-> spread.max_profit * 50,
         \* net_premium_collected * 2 * 100, or strike_width * 0.5 * 100
         stop_loss |-> IF is_put THEN spread.net_premium_collected * 200
                       ELSE spread.strike_width * 50]

\* _generate_entry_notes formats these with ":.1f"/":.2f", which raises
\* TypeError on None.
EntryNotesRaise(stock, spread) ==
    \/ /\ stock.fundamentals # <<>>
       /\ \/ stock.fundamentals[1].pe_ratio = <<>>
          \/ stock.fundamentals[1].roe = <<>>
    \/ /\ stock.technicals # <<>>
       /\ stock.technicals[1].rsi = <<>>
    \/ spread.probability_of_profit = <<>>

\* The layer results create_trade_signal records on the trade.
TradeLayerFlags(stock) ==
    [layer1_pass |-> stock.layer1_pass, layer2_pass |-> stock.layer2_pass,
     layer3_pass |-> TRUE, layer4_pass |-> TRUE]

\* RiskManagementScanner.create_trade_signal: <<trade>>, <<>> for None, or
\* the exception raised.  uid stands for the time stamp and uuid of trade_id.
create_trade_signal(cfg, spread, stock, uid) ==
    LET details == evaluate_spread(cfg, spread, stock)
        flags == TradeLayerFlags(stock)
    IN  IF ~details.passes THEN Returned(<<>>)
        ELSE IF EntryNotesRaise(stock, spread) THEN Raised("TypeError")
        ELSE Returned(<<
              [trade_id |-> <<stock.symbol, uid>>,
               symbol |-> stock.symbol,
               spread_type |-> spread.spread_type,
               spread |-> spread,
               quantity |-> 1,
               entry_price |-> IF spread.kind = "PutSpread"
                               THEN spread.net_premium_collected
                               ELSE spread.net_debit_paid,
               capital_at_risk |-> details.capital_at_risk,
               position_size_percent |-> cfg.max_position_size_percent,
               \* details['ev_percent'] / 100
               expected_value |-> Rat(details.ev_percent[1], details.ev_percent[2] * 100),
               probability_of_profit |-> PopOr(spread, 80),
               layer1_pass |-> flags.layer1_pass,
               layer2_pass |-> flags.layer2_pass,
               layer3_pass |-> flags.layer3_pass,
               layer4_pass |-> flags.layer4_pass,
               stop_loss |-> details.stop_loss,
               take_profit |-> details.take_profit,
               status |-> "pending",
               outcome |-> "pending"]>>)

\* The inner loop of scan_spreads over one stock's spreads; acc is the call
\* result so far (the list, or the exception that ended the scan).
RECURSIVE ScanStockSpreads(_, _, _, _)
ScanStockSpreads(cfg, spreads, stock, acc) ==
    IF spreads = <<>> \/ acc.raised # None THEN acc
    ELSE LET r == create_trade_signal(cfg, Head(spreads), stock, Len(acc.value) + 1)
         IN  ScanStockSpreads(cfg, Tail(spreads), stock,
                 IF r.raised # None THEN Raised(r.raised)
                 ELSE IF r.value # <<>> THEN Returned(Append(acc.value, r.value[1]))
                 ELSE acc)

\* The outer loop of scan_spreads; spreads_by_stock is the dict as the
\* sequence of its items <<symbol, spreads>>.
RECURSIVE ScanItems(_, _, _, _)
ScanItems(cfg, items, stocks, acc) ==
    IF items = <<>> \/ acc.raised # None THEN acc
    ELSE LET stock == DictGet(stocks, Head(items)[1])
         IN  ScanItems(cfg, Tail(items), stocks,
                 IF stock = <<>> THEN acc
                 ELSE ScanStockSpreads(cfg, Head(items)[2], stock[1], acc))

\* RiskManagementScanner.scan_spreads
scan_spreads(cfg, spreads_by_stock, stocks) ==
    ScanItems(cfg, spreads_by_stock, stocks, Returned(<<>>))

\* ------------------------------------------------ SpecRisk: the inputs
\* An OptionContract with Greeks attached (hundredths), quoted bid/ask.
Contract(option_type, strike, bid, ask, delta, theta, gamma, iv_percentile, dte) ==
    [symbol |-> "JPM", option_type |-> option_type, strike |-> strike,
     bid |-> bid, ask |-> ask, delta |-> delta, gamma |-> gamma, theta |-> theta,
     vega |-> <<10>>, iv_percentile |-> iv_percentile, days_to_expiration |-> <<dte>>]

\* A put credit spread as any caller may build it: every required field is
\* supplied (the derived ones as placeholders __init__ overwrites).
RiskPut(width, premium, short_delta) ==
    PutSpreadNew(
        [symbol |-> "JPM",
         short_put |-> Contract("put", 95 * TicksPerDollar, <<600>>, <<640>>,
                                short_delta, <<-10>>, <<3>>, <<70>>, 35),
         long_put |-> Contract("put", 95 * TicksPerDollar - width, <<100>>, <<120>>,
                               <<-8>>, <<-3>>, <<2>>, <<70>>, 35),
         strike_width |-> 1, net_premium_collected |-> premium,
         max_profit |-> 0, max_loss |-> 0, breakeven |-> 0, dte |-> 35]).value

RiskCall(width, debit, long_delta) ==
    CallSpreadNew(
        [symbol |-> "JPM",
         long_call |-> Contract("call", 95 * TicksPerDollar, <<900>>, <<940>>,
                                long_delta, <<-2>>, <<3>>, <<40>>, 75),
         short_call |-> Contract("call", 95 * TicksPerDollar + width, <<300>>, <<320>>,
                                 <<30>>, <<-1>>, <<2>>, <<40>>, 75),
         strike_width |-> 1, net_debit_paid |-> debit,
         max_profit |-> 0, max_loss |-> 0, breakeven |-> 0, dte |-> 75]).value

RiskSpreads ==
    {RiskPut(w, p, d) : w \in {3 * TicksPerDollar, 5 * TicksPerDollar},
                        p \in {50, 200, 520},
                        d \in {<<>>, <<-18>>, <<-20>>}}
    \cup {RiskCall(5 * TicksPerDollar, p, d) : p \in {300, 600}, d \in {<<>>, <<65>>}}

\* The spreads of the scan_spreads calls: one that passes Layer 4 under every
\* configuration with a 2.5% position limit, one that fails the EV gate, one
\* 3 wide (outside the Layer-3 width band) and one without a probability of
\* profit.
ScanSpreads ==
    {RiskPut(5 * TicksPerDollar, 520, <<-18>>),
     RiskPut(5 * TicksPerDollar, 50, <<-18>>),
     RiskPut(3 * TicksPerDollar, 200, <<-18>>),
     RiskPut(3 * TicksPerDollar, 200, <<>>)}

RiskStock(layer1_pass, layer2_pass, pe_ratio, has_data) ==
    [symbol |-> "JPM",
     fundamentals |-> IF has_data
                      THEN <<[pe_ratio |-> pe_ratio, roe |-> <<15>>,
                              sector |-> "Financials"]>>
                      ELSE <<>>,
     technicals |-> IF has_data THEN <<[rsi |-> <<40>>]>> ELSE <<>>,
     layer1_pass |-> layer1_pass,
     layer2_pass |-> layer2_pass]

RiskStocks ==
    {RiskStock(l1, l2, <<10>>, TRUE) : l1, l2 \in BOOLEAN}
    \cup {RiskStock(FALSE, TRUE, <<>>, TRUE), RiskStock(FALSE, FALSE, <<>>, FALSE)}

\* RiskManagementScanner(...): portfolio_size in ticks, max_position_size_percent
\* in tenths of a percent, min_expected_value in percent.
RiskConfigs ==
    [portfolio_size : {10000 * TicksPerDollar, 100000 * TicksPerDollar},
     max_position_size_percent : {20, 25},
     min_expected_value : {10, 20}]

EvAmounts == {0, 50, 200, 520}

EvLosses == {-100, 0, 400, 480, 950}

EvPops == {0, 65, 80, 82, 100}

KellyProbabilities == {0, 40, 82, 100}

KellyAmounts == {0, 25, 100, 400}

\* spreads_by_stock: the items of a dict whose keys are among "JPM" and "GONE"
\* ("GONE" is in no stocks_by_symbol of the calls).
ScanItemLists ==
    LET lists == SeqsUpTo(ScanSpreads, MaxSpreadsPerStock)
        gone == {<<>>, <<RiskPut(5 * TicksPerDollar, 520, <<-18>>)>>}
    IN  {<<>>}
        \cup {<<<<"JPM", l>>>> : l \in lists}
        \cup {<<<<"GONE", l>>>> : l \in gone}
        \cup {<<<<"JPM", l1>>, <<"GONE", l2>>>> : l1 \in lists, l2 \in gone}
        \cup {<<<<"GONE", l1>>, <<"JPM", l2>>>> : l1 \in gone, l2 \in lists}

\* The sequences of at most n distinct elements of S.
DistinctSeqsUpTo(S, n) ==
    {q \in SeqsUpTo(S, n) : \A i, j \in 1..Len(q) : i # j => q[i] # q[j]}

\* A quote of a chain: strike in dollars, bid and ask in ticks.
Quote(option_type, strike, bid, ask, delta) ==
    Contract(option_type, strike * TicksPerDollar, bid, ask, delta,
             <<-10>>, <<3>>, <<70>>, 35)

\* Put quotes of one expiration: a short candidate at 95, long candidates 5
\* and 10 below it, one more expensive than the short put, a quote without
\* a bid, and strikes 4 and 11 below.
PutQuotes ==
    {Quote("put", 95, <<600>>, <<640>>, <<-18>>),
     Quote("put", 90, <<200>>, <<240>>, <<-10>>),
     Quote("put", 85, <<100>>, <<120>>, <<-15>>),
     Quote("put", 90, <<700>>, <<740>>, <<>>),
     Quote("put", 91, <<>>, <<260>>, <<-20>>),
     Quote("put", 84, <<80>>, <<100>>, <<-21>>)}

\* Call quotes of one expiration: long candidates at 100 and 110, short
\* candidates 5, 10 and 8 above them, one more expensive than the long call.
CallQuotes ==
    {Quote("call", 100, <<900>>, <<940>>, <<65>>),
     Quote("call", 105, <<300>>, <<320>>, <<30>>),
     Quote("call", 110, <<100>>, <<120>>, <<60>>),
     Quote("call", 118, <<40>>, <<60>>, <<>>),
     Quote("call", 105, <<1000>>, <<1040>>, <<71>>),
     Quote("call", 111, <<90>>, <<>>, <<20>>)}

PutChains == DistinctSeqsUpTo(PutQuotes, MaxChainLen)

CallChains == DistinctSeqsUpTo(CallQuotes, MaxChainLen)

\* current_price of the builder calls, in ticks
SpotPrices == {95 * TicksPerDollar, 100 * TicksPerDollar, 110 * TicksPerDollar}

\* ----------------------------------------------- SpecRisk: the actions
\* No sector pass is modelled in this specification.
NoPass ==
    /\ pc = "idle"
    /\ stocks_by_symbol = <<>>
    /\ trade_signals = <<>>
    /\ existing_positions = <<>>
    /\ max_sector_positions = DefaultMaxSectorPositions
    /\ max_positions = DefaultMaxPositions
    /\ sector_counts = <<>>
    /\ filtered_trades = <<>>
    /\ idx = 0
    /\ session_trade_signals = <<>>

InitRisk ==
    /\ NoPass
    /\ NoScan
    /\ NoPortfolio
    /\ risk_cfg \in RiskConfigs
    /\ call_fn = "none"
    /\ call_args = <<>>
    /\ call_result = <<>>

\* What every call does to the state: it records itself.
Record(fn, args, result) ==
    /\ call_fn' = fn
    /\ call_args' = args
    /\ call_result' = result

CallCreditEV ==
    /\ call_fn = "none"
    /\ \E premium \in EvAmounts, max_loss \in EvLosses, pop \in EvPops :
        Record("calculate_credit_spread_ev", <<premium, max_loss, pop>>,
               Returned(calculate_credit_spread_ev(premium, max_loss, pop)))
    /\ UNCHANGED <<risk_cfg, filterVars, scanVars, portfolioVars>>

CallDebitEV ==
    /\ call_fn = "none"
    /\ \E max_profit \in EvAmounts, debit_paid \in EvLosses, pop \in EvPops :
        Record("calculate_debit_spread_ev", <<max_profit, debit_paid, pop>>,
               Returned(calculate_debit_spread_ev(max_profit, debit_paid, pop)))
    /\ UNCHANGED <<risk_cfg, filterVars, scanVars, portfolioVars>>

CallKelly ==
    /\ call_fn = "none"
    /\ \E p \in KellyProbabilities, win \in KellyAmounts, loss \in KellyAmounts :
        Record("kelly_criterion", <<p, win, loss>>, kelly_criterion(p, win, loss))
    /\ UNCHANGED <<risk_cfg, filterVars, scanVars, portfolioVars>>

CallMeetsEVThreshold ==
    /\ call_fn = "none"
    /\ \E premium \in EvAmounts, max_loss \in EvLosses, pop \in EvPops,
          threshold \in {10, 20} :
        Record("meets_ev_threshold", <<premium, max_loss, pop, threshold>>,
               Returned(meets_ev_threshold(premium, max_loss, pop, threshold)))
    /\ UNCHANGED <<risk_cfg, filterVars, scanVars, portfolioVars>>

CallEvaluateSpread ==
    /\ call_fn = "none"
    /\ \E spread \in RiskSpreads, stock \in RiskStocks :
        Record("evaluate_spread", <<spread, stock>>,
               Returned(evaluate_spread(risk_cfg, spread, stock)))
    /\ UNCHANGED <<risk_cfg, filterVars, scanVars, portfolioVars>>

CallCreateTradeSignal ==
    /\ call_fn = "none"
    /\ \E spread \in RiskSpreads, stock \in RiskStocks :
        Record("create_trade_signal", <<spread, stock>>,
               create_trade_signal(risk_cfg, spread, stock, 1))
    /\ UNCHANGED <<risk_cfg, filterVars, scanVars, portfolioVars>>

CallScanSpreads ==
    /\ call_fn = "none"
    /\ \E items \in ScanItemLists, stock \in RiskStocks :
        Record("scan_spreads", <<items, [s \in {"JPM"} |-> stock]>>,
               scan_spreads(risk_cfg, items, [s \in {"JPM"} |-> stock]))
    /\ UNCHANGED <<risk_cfg, filterVars, scanVars, portfolioVars>>

CallBuildPutSpreads ==
    /\ call_fn = "none"
    /\ \E put_contracts \in PutChains, current_price \in SpotPrices :
        Record("_build_put_spreads", <<put_contracts, current_price>>,
               Returned(build_put_spreads(put_contracts, current_price, "JPM")))
    /\ UNCHANGED <<risk_cfg, filterVars, scanVars, portfolioVars>>

CallBuildCallSpreads ==
    /\ call_fn = "none"
    /\ \E call_contracts \in CallChains, current_price \in SpotPrices :
        Record("_build_call_spreads", <<call_contracts, current_price>>,
               Returned(build_call_spreads(call_contracts, current_price, "JPM")))
    /\ UNCHANGED <<risk_cfg, filterVars, scanVars, portfolioVars>>

\* The Greeks a leg can carry: none, all zero (an expired option), a typical
\* set, and a typical set with single zeros.
LegGreeks ==
    {[delta |-> <<>>, gamma |-> <<>>, theta |-> <<>>, vega |-> <<>>, rho |-> <<>>],
     [delta |-> <<0>>, gamma |-> <<0>>, theta |-> <<0>>, vega |-> <<0>>, rho |-> <<0>>],
     [delta |-> <<18>>, gamma |-> <<3>>, theta |-> <<-10>>, vega |-> <<10>>, rho |-> <<4>>],
     [delta |-> <<8>>, gamma |-> <<0>>, theta |-> <<-3>>, vega |-> <<0>>, rho |-> <<1>>]}

\* A leg at a strike (in dollars) carrying the Greeks g; a put's delta is
\* the negative of g.delta.
Leg(option_type, strike, g) ==
    [Quote(option_type, strike, <<300>>, <<320>>, <<>>) EXCEPT
        !.delta = IF g.delta = <<>> THEN <<>>
                  ELSE IF option_type = "put" THEN <<-g.delta[1]>> ELSE g.delta,
        !.gamma = g.gamma, !.theta = g.theta, !.vega = g.vega]

\* The Greeks dict of a leg as calculate_all_greeks hands it out.
GreeksOfLeg(c, rho) ==
    [delta |-> c.delta, gamma |-> c.gamma, theta |-> c.theta, vega |-> c.vega,
     rho |-> rho]

LegStrikes == {90, 95, 100}

\* Keyword arguments of PutSpread(...): every field supplied, the short put
\* at 95 and the long put below, at or above it.
PutSpreadKwargs ==
    {[symbol |-> "JPM",
      short_put |-> Leg("put", 95, gs),
      long_put |-> Leg("put", k, gl),
      strike_width |-> w, net_premium_collected |-> 200,
      max_profit |-> 0, max_loss |-> 0, breakeven |-> 0, dte |-> 35] :
        gs \in LegGreeks, gl \in LegGreeks, k \in LegStrikes, w \in {0, 1}}

\* Keyword arguments of CallSpread(...): the long call at 95 and the short
\* call below, at or above it.
CallSpreadKwargs ==
    {[symbol |-> "JPM",
      long_call |-> Leg("call", 95, gl),
      short_call |-> Leg("call", k, gs),
      strike_width |-> w, net_debit_paid |-> 200,
      max_profit |-> 0, max_loss |-> 0, breakeven |-> 0, dte |-> 75] :
        gs \in LegGreeks, gl \in LegGreeks, k \in LegStrikes, w \in {0, 1}}

CallNewPutSpread ==
    /\ call_fn = "none"
    /\ \E data \in PutSpreadKwargs :
        Record("PutSpread", <<data>>, PutSpreadNew(data))
    /\ UNCHANGED <<risk_cfg, filterVars, scanVars, portfolioVars>>

CallNewCallSpread ==
    /\ call_fn = "none"
    /\ \E data \in CallSpreadKwargs :
        Record("CallSpread", <<data>>, CallSpreadNew(data))
    /\ UNCHANGED <<risk_cfg, filterVars, scanVars, portfolioVars>>

CallSpreadGreeks ==
    /\ call_fn = "none"
    /\ \E long_greeks \in LegGreeks, short_greeks \in LegGreeks,
          is_credit_spread \in BOOLEAN :
        Record("calculate_spread_greeks",
               <<long_greeks, short_greeks, is_credit_spread>>,
               calculate_spread_greeks(long_greeks, short_greeks, is_credit_spread))
    /\ UNCHANGED <<risk_cfg, filterVars, scanVars, portfolioVars>>

NextRisk ==
    \/ CallCreditEV
    \/ CallDebitEV
    \/ CallKelly
    \/ CallMeetsEVThreshold
    \/ CallEvaluateSpread
    \/ CallCreateTradeSignal
    \/ CallScanSpreads
    \/ CallBuildPutSpreads
    \/ CallBuildCallSpreads

SpecRisk == InitRisk /\ [][NextRisk]_vars

\* ------------------------------------------------- SpecRisk: the claims
\* The trade a create_trade_signal call returned, if any.
ReturnedTrades ==
    IF call_fn = "create_trade_signal" /\ call_result.raised = None
    THEN Range(call_result.value)
    ELSE IF call_fn = "scan_spreads" /\ call_result.raised = None
    THEN Range(call_result.value)
    ELSE {}

\* capital at risk as the claim defines it
ClaimedCapitalAtRisk(spread) ==
    IF spread.kind = "PutSpread" THEN spread.max_loss * 100
    ELSE spread.net_debit_paid * 100

\* capital <= portfolio_size * max_position_size_percent / 100
WithinPositionLimit(capital) ==
    capital * 1000 <= risk_cfg.portfolio_size * risk_cfg.max_position_size_percent

\* C4: every Trade returned by create_trade_signal or scan_spreads has
\* capital_at_risk (max_loss * 100 for a put credit spread, net_debit_paid *
\* 100 for a call debit spread) at most portfolio_size *
\* max_position_size_percent / 100; a spread over the limit is rejected with
\* a reason and yields no trade.
C4_PositionSizeLimit ==
    /\ \A t \in ReturnedTrades :
        /\ t.capital_at_risk = ClaimedCapitalAtRisk(t.spread)
        /\ WithinPositionLimit(t.capital_at_risk)
    /\ (call_fn = "evaluate_spread"
        /\ ~WithinPositionLimit(ClaimedCapitalAtRisk(call_args[1])))
       => /\ ~call_result.value.passes
          /\ "Capital at risk" \in Range(call_result.value.failures)
    /\ (call_fn = "create_trade_signal"
        /\ ~WithinPositionLimit(ClaimedCapitalAtRisk(call_args[1])))
       => call_result = Returned(<<>>)

\* create_trade_signal returned a trade whose capital at risk is exactly the
\* limit, under a configuration that rejects other spreads for their size.
C4_Witness ==
    /\ call_fn = "create_trade_signal"
    /\ call_result.raised = None
    /\ call_result.value # <<>>
    /\ call_result.value[1].capital_at_risk * 1000
        = risk_cfg.portfolio_size * risk_cfg.max_position_size_percent
    /\ \E spread \in RiskSpreads : ~WithinPositionLimit(ClaimedCapitalAtRisk(spread))

\* C6: every Trade returned by create_trade_signal or scan_spreads belongs to
\* a stock that passed Layers 1 and 2 and to a spread that passed the Layer-3
\* predicate, and all four layer flags recorded on it are true.
C6_AllLayersPassed ==
    \A t \in ReturnedTrades :
        /\ t.layer1_pass /\ t.layer2_pass /\ t.layer3_pass /\ t.layer4_pass
        /\ passes_layer3_criteria(t.spread).raised = None
        /\ passes_layer3_criteria(t.spread).value.passes

\* C7: for a loss amount > 0 the EV calculators return
\* expected_value = winProb * winAmount - lossProb * lossAmount and
\* ev_percent = expected_value / lossAmount * 100, winAmount being the first
\* argument (premium, or max profit) and lossAmount the second (max loss, or
\* debit paid); premium 0.25, max loss 4.75, PoP 82 gives EV = -0.65.
C7_EVFormula ==
    (call_fn \in {"calculate_credit_spread_ev", "calculate_debit_spread_ev"}
     /\ call_args[2] > 0)
    => LET win == call_args[1]
           loss == call_args[2]
           pop == call_args[3]
           r == call_result.value
           \* 100 * (winProb * win - lossProb * loss)
           ev100 == pop * win - (100 - pop) * loss
       IN  /\ r.win_amount = win
           /\ r.loss_amount = loss
           /\ r.expected_value[1] * 100 = ev100 * r.expected_value[2]
           /\ r.ev_percent[1] * loss = ev100 * r.ev_percent[2]
           /\ (call_fn = "calculate_credit_spread_ev" /\ call_args = <<50, 950, 82>>)
              => r.expected_value[1] = -130 * r.expected_value[2]

\* The debit calculator on a max profit of 2.60 against a debit of 2.40.
C7_Witness ==
    /\ call_fn = "calculate_debit_spread_ev"
    /\ call_args[1] = 520
    /\ call_args[2] = 480
    /\ call_args[3] = 65
    /\ RLt(Rat(0, 1), call_result.value.ev_percent)

\* C8: meets_ev_threshold passes exactly when ev_percent >= threshold * 100;
\* evaluate_spread records an EV failure exactly when ev_percent <
\* min_expected_value * 100, and then create_trade_signal returns no trade;
\* with the 20% minimum, premium 0.25 / max loss 4.75 / PoP 82 is rejected.
C8_EVGateInclusive ==
    /\ call_fn = "meets_ev_threshold"
       => /\ call_result.value.passes
                <=> ~RLt(call_result.value.ev_metrics.ev_percent, Rat(call_args[4], 1))
          /\ call_args = <<50, 950, 82, 20>> => ~call_result.value.passes
    /\ call_fn = "evaluate_spread"
       => /\ ("EV" \in Range(call_result.value.failures))
                <=> RLt(call_result.value.ev_percent,
                        Rat(risk_cfg.min_expected_value, 1))
          /\ "EV" \in Range(call_result.value.failures) => ~call_result.value.passes
    /\ call_fn = "create_trade_signal"
       => /\ RLt(evaluate_spread(risk_cfg, call_args[1], call_args[2]).ev_percent,
                 Rat(risk_cfg.min_expected_value, 1))
                => call_result = Returned(<<>>)
          /\ \A t \in ReturnedTrades :
                RLe(Rat(risk_cfg.min_expected_value, 100), t.expected_value)

\* evaluate_spread passed a spread whose ev_percent is exactly the minimum.
C8_Witness ==
    /\ call_fn = "evaluate_spread"
    /\ REq(call_result.value.ev_percent, Rat(risk_cfg.min_expected_value, 1))
    /\ call_result.value.passes

\* C9: for a win probability in [0, 1] and non-negative amounts,
\* kelly_criterion returns a fraction f with 0 <= f <= 0.05, which for
\* positive amounts is a quarter of (b*p - q)/b, b = win/loss, capped at 0.05
\* and floored at 0.
C9_KellyRange ==
    call_fn = "kelly_criterion"
    => /\ call_result.raised = None
       /\ RLe(Rat(0, 1), call_result.value)
       /\ RLe(call_result.value, Rat(5, 100))
       /\ (call_args[2] > 0 /\ call_args[3] > 0)
          => LET p == call_args[1]
                 win == call_args[2]
                 loss == call_args[3]
                 \* kelly / 4 = (p*win - q*loss) / (400 * win), p and q in percent
                 quarter == Rat(p * win - (100 - p) * loss, 400 * win)
             IN  REq(call_result.value,
                     IF RLt(quarter, Rat(0, 1)) THEN Rat(0, 1)
                     ELSE IF RLt(Rat(5, 100), quarter) THEN Rat(5, 100)
                     ELSE quarter)

\* C10: _build_put_spreads returns exactly one spread for each pair (short,
\* long) of quotes with bid and ask present, short delta in [-0.20, -0.15],
\* short strike < spot, long strike 5 to 10 below the short strike and net
\* premium > 0, and nothing else; _build_call_spreads returns exactly the
\* pairs with long-call delta in [0.60, 0.70], short strike 5 to 10 above
\* the long strike and net debit > 0; no returned spread has a non-positive
\* premium or debit.
C10_ExactPairs ==
    LET chain == call_args[1]
        spot == call_args[2]
        quoted(c) == c.bid # <<>> /\ c.ask # <<>>
        putPairs ==
            {pr \in (1..Len(chain)) \X (1..Len(chain)) :
                LET short == chain[pr[1]]
                    long == chain[pr[2]]
                IN  /\ quoted(short) /\ quoted(long)
                    /\ short.delta # <<>>
                    /\ -20 <= short.delta[1] /\ short.delta[1] <= -15
                    /\ short.strike < spot
                    /\ long.strike < short.strike
                    /\ 5 * TicksPerDollar <= short.strike - long.strike
                    /\ short.strike - long.strike <= 10 * TicksPerDollar
                    /\ MidPrice(short) - MidPrice(long) > 0}
        callPairs ==
            {pr \in (1..Len(chain)) \X (1..Len(chain)) :
                LET long == chain[pr[1]]
                    short == chain[pr[2]]
                IN  /\ quoted(long) /\ quoted(short)
                    /\ long.delta # <<>>
                    /\ 60 <= long.delta[1] /\ long.delta[1] <= 70
                    /\ 5 * TicksPerDollar <= short.strike - long.strike
                    /\ short.strike - long.strike <= 10 * TicksPerDollar
                    /\ MidPrice(long) - MidPrice(short) > 0}
        spreads == call_result.value
    IN  /\ call_fn = "_build_put_spreads"
           => /\ Len(spreads) = Cardinality(putPairs)
              /\ \A pr \in putPairs : \E k \in 1..Len(spreads) :
                    /\ spreads[k].short_put = chain[pr[1]]
                    /\ spreads[k].long_put = chain[pr[2]]
              /\ \A k \in 1..Len(spreads) : spreads[k].net_premium_collected > 0
        /\ call_fn = "_build_call_spreads"
           => /\ Len(spreads) = Cardinality(callPairs)
              /\ \A pr \in callPairs : \E k \in 1..Len(spreads) :
                    /\ spreads[k].long_call = chain[pr[1]]
                    /\ spreads[k].short_call = chain[pr[2]]
              /\ \A k \in 1..Len(spreads) : spreads[k].net_debit_paid > 0

\* ---------------------------------------------------- models/stock.py
\* Units of the fundamentals and technicals: pe_ratio, roe and
\* distance_from_52w_low in tenths, market_cap in billions of dollars,
\* correlations, debt_to_equity and volume_ratio in hundredths, eps in cents.
AllowedSectors ==
    {"Financials", "Healthcare", "Consumer Staples", "Utilities", "Industrials"}

\* StockFundamentals.eps_growth_positive_2q
eps_growth_positive_2q(f) ==
    IF Truthy(f.eps_current) /\ Truthy(f.eps_q1_ago) /\ Truthy(f.eps_q2_ago)
    THEN f.eps_current[1] > f.eps_q1_ago[1] /\ f.eps_q1_ago[1] > f.eps_q2_ago[1]
    ELSE FALSE

\* StockFundamentals.passes_layer1_criteria
passes_layer1_criteria(f) ==
    LET f1 == AppendIf(<<>>, f.pe_ratio = <<>>
                             \/ ~(80 <= f.pe_ratio[1] /\ f.pe_ratio[1] <= 150), "P/E")
        f2 == AppendIf(f1, f.market_cap < 10, "Market cap")
        f3 == AppendIf(f2, f.correlation_to_mag7 = <<>>
                           \/ f.correlation_to_mag7[1] >= -30, "Mag7 correlation")
        f4 == AppendIf(f3, f.sector \notin AllowedSectors, "Sector")
        f5 == AppendIf(f4, ~eps_growth_positive_2q(f), "EPS growth")
        f6 == AppendIf(f5, f.debt_to_equity = <<>> \/ f.debt_to_equity[1] >= 150,
                       "Debt-to-Equity")
        f7 == AppendIf(f6, f.roe = <<>> \/ f.roe[1] <= 120, "ROE")
    IN  [passes |-> Len(f7) = 0, failures |-> f7]

\* StockTechnicals.passes_layer2_criteria
passes_layer2_criteria(t) ==
    LET f1 == AppendIf(<<>>, t.rsi = <<>> \/ ~(30 <= t.rsi[1] /\ t.rsi[1] <= 45), "RSI")
        f2 == AppendIf(f1, t.volume_ratio = <<>> \/ t.volume_ratio[1] <= 100,
                       "Volume ratio")
        f3 == AppendIf(f2, t.distance_from_52w_low = <<>>
                           \/ t.distance_from_52w_low[1] > 100, "Distance from 52w low")
    IN  [passes |-> Len(f3) = 0, failures |-> f3]

\* Stock(symbol=symbol, fundamentals=fundamentals)
StockNew(symbol, fundamentals) ==
    [symbol |-> symbol, fundamentals |-> <<fundamentals>>, technicals |-> <<>>,
     layer1_pass |-> FALSE, layer1_failures |-> <<>>,
     layer2_pass |-> FALSE, layer2_failures |-> <<>>]

\* Stock.evaluate
evaluate(stock) ==
    LET s1 == IF stock.fundamentals # <<>>
              THEN LET r == passes_layer1_criteria(stock.fundamentals[1])
                   IN  [stock EXCEPT !.layer1_pass = r.passes,
                                     !.layer1_failures = r.failures]
              ELSE stock
    IN  IF s1.technicals # <<>>
        THEN LET r == passes_layer2_criteria(s1.technicals[1])
             IN  [s1 EXCEPT !.layer2_pass = r.passes, !.layer2_failures = r.failures]
        ELSE s1

\* -------------------------------------- scanner/layer1_fundamentals.py
\* FundamentalsScanner.scan_symbol: <<stock>>, or <<>> for None.  client is
\* the data client: symbol -> what its calls return for the symbol (a call
\* that fails returns None there).
Layer1ScanSymbol(client, symbol) ==
    LET data == client[symbol]
    IN  IF data.fundamentals = <<>> THEN <<>>
        ELSE LET f0 == data.fundamentals[1]
                 f1 == IF data.mag7_correlation # <<>>
                       THEN [f0 EXCEPT !.correlation_to_mag7 = data.mag7_correlation]
                       ELSE f0
                 f2 == IF data.spy_correlation # <<>>
                       THEN [f1 EXCEPT !.correlation_to_spy = data.spy_correlation]
                       ELSE f1
             IN  <<evaluate(StockNew(symbol, f2))>>

\* A scan_universe that gives up at the first symbol whose data cannot be
\* fetched, instead of going on to the next symbol.
RECURSIVE scan_universe_aborting(_, _)
scan_universe_aborting(client, symbols) ==
    IF symbols = <<>> THEN <<>>
    ELSE LET stock == Layer1ScanSymbol(client, Head(symbols))
         IN  IF stock = <<>> THEN <<>>
             ELSE (IF stock[1].layer1_pass THEN stock ELSE <<>>)
                  \o scan_universe_aborting(client, Tail(symbols))

\* FundamentalsScanner.scan_universe
RECURSIVE scan_universe(_, _)
scan_universe(client, symbols) ==
    IF symbols = <<>> THEN <<>>
    ELSE LET stock == Layer1ScanSymbol(client, Head(symbols))
         IN  (IF stock # <<>> /\ stock[1].layer1_pass THEN stock ELSE <<>>)
             \o scan_universe(client, Tail(symbols))

\* ------------------------------------ scanner/layer2_mean_reversion.py
\* MeanReversionScanner.scan_symbol
Layer2ScanSymbol(client, stock) ==
    LET technicals == client[stock.symbol].technicals
    IN  IF technicals = <<>> THEN stock
        ELSE evaluate([stock EXCEPT !.technicals = technicals])

\* MeanReversionScanner.scan_stocks
RECURSIVE scan_stocks(_, _)
scan_stocks(client, stocks) ==
    IF stocks = <<>> THEN <<>>
    ELSE LET stock == Layer2ScanSymbol(client, Head(stocks))
         IN  (IF stock.layer1_pass /\ stock.layer2_pass THEN <<stock>> ELSE <<>>)
             \o scan_stocks(client, Tail(stocks))

\* ------------------------------------------- scanner/layer3_greeks.py
\* The loop of scan_put_spreads over the valid expirations; an expiration is
\* [dte, put_contracts], the contracts with their Greeks attached.
RECURSIVE PutSpreadsOfExpirations(_, _, _)
PutSpreadsOfExpirations(valid_expirations, current_price, symbol) ==
    IF valid_expirations = <<>> THEN <<>>
    ELSE LET put_contracts == Head(valid_expirations).put_contracts
         IN  (IF Len(put_contracts) < 2 THEN <<>>
              ELSE build_put_spreads(put_contracts, current_price, symbol))
             \o PutSpreadsOfExpirations(Tail(valid_expirations), current_price, symbol)

\* GreeksScanner.scan_put_spreads with the default dte_range (30, 45); an
\* exception in the body returns [].
scan_put_spreads(client, stock) ==
    IF stock.fundamentals = <<>> THEN <<>>
    ELSE LET expirations == client[stock.symbol].expirations
             valid_expirations ==
                 SelectSeq(expirations, LAMBDA e : 30 <= e.dte /\ e.dte <= 45)
             spreads == PutSpreadsOfExpirations(valid_expirations,
                            stock.fundamentals[1].current_price, stock.symbol)
         IN  IF expirations = <<>> THEN <<>>
             ELSE IF \E k \in 1..Len(spreads) :
                        passes_layer3_criteria(spreads[k]).raised # None
             THEN <<>>
             ELSE SelectSeq(spreads, LAMBDA sp : passes_layer3_criteria(sp).value.passes)

\* ------------------------------------------------ SpecScan: the inputs
ScanSymbols == {"JPM", "DUK", "PG"}

\* Fundamentals that pass every Layer-1 rule once the Mag-7 correlation is
\* attached; spot price 100.
GoodFundamentals(symbol) ==
    [symbol |-> symbol, current_price |-> 100 * TicksPerDollar, market_cap |-> 420,
     pe_ratio |-> <<105>>, roe |-> <<152>>, debt_to_equity |-> <<120>>,
     eps_current |-> <<300>>, eps_q1_ago |-> <<280>>, eps_q2_ago |-> <<250>>,
     sector |-> "Financials", correlation_to_mag7 |-> <<>>,
     correlation_to_spy |-> <<>>]

\* Technicals that pass the Layer-2 gate.
GoodTechnicals == [rsi |-> <<40>>, volume_ratio |-> <<120>>,
                   distance_from_52w_low |-> <<80>>]

\* An expiration 35 days out whose two puts form one spread: short 95 (delta
\* -0.18, mid 3.10 or 5.10) over long 90 (mid 1.10).
GoodExpiration(short_bid) ==
    [dte |-> 35,
     put_contracts |->
        <<Quote("put", 95, <<short_bid>>, <<short_bid + 40>>, <<-18>>),
          Contract("put", 90 * TicksPerDollar, <<200>>, <<240>>, <<-10>>,
                   <<-3>>, <<2>>, <<70>>, 35)>>]

MarketDataRecord(fundamentals, mag7_correlation, technicals, expirations) ==
    [fundamentals |-> fundamentals, mag7_correlation |-> mag7_correlation,
     spy_correlation |-> <<60>>, technicals |-> technicals,
     expirations |-> expirations]

\* What the data client can return for a symbol.
MarketData(symbol) ==
    LET good == GoodFundamentals(symbol)
    IN  {MarketDataRecord(<<>>, <<>>, <<>>, <<>>),
         MarketDataRecord(<<good>>, <<-35>>, <<>>, <<GoodExpiration(600)>>),
         MarketDataRecord(<<[good EXCEPT !.pe_ratio = <<160>>]>>, <<-35>>,
                          <<GoodTechnicals>>, <<GoodExpiration(600)>>),
         MarketDataRecord(<<good>>, <<-30>>, <<GoodTechnicals>>, <<GoodExpiration(600)>>),
         MarketDataRecord(<<good>>, <<-35>>, <<[GoodTechnicals EXCEPT !.rsi = <<50>>]>>,
                          <<GoodExpiration(600)>>),
         MarketDataRecord(<<good>>, <<-35>>, <<GoodTechnicals>>, <<GoodExpiration(600)>>),
         MarketDataRecord(<<good>>, <<-35>>, <<GoodTechnicals>>,
                          <<[GoodExpiration(600) EXCEPT !.dte = 20], GoodExpiration(1000)>>),
         MarketDataRecord(<<good>>, <<-35>>, <<GoodTechnicals>>,
                          <<[dte |-> 35, put_contracts |-> <<>>]>>),
         MarketDataRecord(<<good>>, <<-35>>, <<GoodTechnicals>>,
                          <<[dte |-> 35, put_contracts |-> <<>>], GoodExpiration(600)>>)}

\* The data clients over the symbols of a universe.
DataClients(symbols) ==
    {c \in [Range(symbols) -> UNION {MarketData(sym) : sym \in ScanSymbols}] :
        \A sym \in Range(symbols) : c[sym] \in MarketData(sym)}

\* ----------------------------------------------- SpecScan: the actions
InitScan ==
    /\ NoPass
    /\ NoPortfolio
    /\ risk_cfg \in RiskConfigs
    /\ call_fn = "none"
    /\ call_args = <<>>
    /\ call_result = <<>>
    /\ scan_pc = "layer1"
    /\ universe \in DistinctSeqsUpTo(ScanSymbols, MaxUniverse)
    /\ data_client \in DataClients(universe)
    /\ layer1_stocks = <<>>
    /\ layer2_stocks = <<>>
    /\ all_spreads = <<>>
    /\ scan_signals = <<>>

\* layer1_scanner.scan_universe(universe)
ScanUniverse ==
    /\ scan_pc = "layer1"
    /\ layer1_stocks' = scan_universe(data_client, universe)
    /\ scan_pc' = "layer2"
    /\ UNCHANGED <<universe, data_client, layer2_stocks, all_spreads, scan_signals>>
    /\ UNCHANGED <<filterVars, riskVars, portfolioVars>>

\* layer2_scanner.scan_stocks(layer1_stocks)
ScanStocks ==
    /\ scan_pc = "layer2"
    /\ layer2_stocks' = scan_stocks(data_client, layer1_stocks)
    /\ scan_pc' = "layer3"
    /\ UNCHANGED <<universe, data_client, layer1_stocks, all_spreads, scan_signals>>
    /\ UNCHANGED <<filterVars, riskVars, portfolioVars>>

\* layer3_scanner.scan_put_spreads(stock) for every stock left, collected
\* under the stock's symbol.
ScanPutSpreads ==
    /\ scan_pc = "layer3"
    /\ all_spreads' = [k \in 1..Len(layer2_stocks) |->
                          <<layer2_stocks[k].symbol,
                            scan_put_spreads(data_client, layer2_stocks[k])>>]
    /\ scan_pc' = "layer4"
    /\ UNCHANGED <<universe, data_client, layer1_stocks, layer2_stocks, scan_signals>>
    /\ UNCHANGED <<filterVars, riskVars, portfolioVars>>

\* stocks_by_symbol = {s.symbol: s for s in layer2_stocks}
StocksBySymbol(stocks) ==
    [sym \in {stocks[k].symbol : k \in 1..Len(stocks)} |->
        (CHOOSE k \in 1..Len(stocks) :
            /\ stocks[k].symbol = sym
            /\ \A j \in (k + 1)..Len(stocks) : stocks[j].symbol # sym) ]

\* layer4_scanner.scan_spreads(all_spreads, stocks_by_symbol)
ScanSpreadsLayer4 ==
    /\ scan_pc = "layer4"
    /\ scan_signals' = scan_spreads(risk_cfg, all_spreads,
                          LET d == StocksBySymbol(layer2_stocks)
                          IN  [sym \in DOMAIN d |-> layer2_stocks[d[sym]]])
    /\ scan_pc' = "done"
    /\ UNCHANGED <<universe, data_client, layer1_stocks, layer2_stocks, all_spreads>>
    /\ UNCHANGED <<filterVars, riskVars, portfolioVars>>

NextScan == ScanUniverse \/ ScanStocks \/ ScanPutSpreads \/ ScanSpreadsLayer4

SpecScan == InitScan /\ [][NextScan]_vars

\* -------------------------------------------------- SpecScan: the claims
\* The put credit spreads of a symbol's chain that qualify: the pairs of one
\* expiration 30 to 45 days out that the builder's rules admit and whose
\* spread passes the Layer-3 predicate and the Layer-4 checks.
QualifyingPutSpreads(symbol) ==
    LET data == data_client[symbol]
        spot == data.fundamentals[1].current_price
        stock == Layer2ScanSymbol(data_client, Layer1ScanSymbol(data_client, symbol)[1])
    IN  {sp \in UNION {
            {PutSpreadNew([symbol |-> symbol, short_put |-> short, long_put |-> long,
                           strike_width |-> 1,
                           net_premium_collected |-> MidPrice(short) - MidPrice(long),
                           max_profit |-> 0, max_loss |-> 0, breakeven |-> 0,
                           dte |-> data.expirations[e].dte]).value :
                short \in {c \in Range(data.expirations[e].put_contracts) :
                              ShortPutCandidate(c, spot)},
                long \in {c \in Range(data.expirations[e].put_contracts) :
                              c.bid # <<>> /\ c.ask # <<>>}} :
            e \in {e \in 1..Len(data.expirations) :
                      30 <= data.expirations[e].dte /\ data.expirations[e].dte <= 45}} :
          /\ sp.net_premium_collected > 0
          /\ passes_layer3_criteria(sp).raised = None
          /\ passes_layer3_criteria(sp).value.passes
          /\ evaluate_spread(risk_cfg, sp, stock).passes}

\* C5: a universe of one instrument that passes every Layer-1 rule and the
\* Layer-2 gate and whose chain contains exactly one qualifying put credit
\* spread yields exactly one trade signal, with capital at risk at most
\* portfolio_size * max_position_size_percent / 100.
C5_EndToEnd ==
    (/\ scan_pc = "done"
     /\ Len(universe) = 1
     /\ Len(layer2_stocks) = 1
     /\ Cardinality(QualifyingPutSpreads(universe[1])) = 1)
    => /\ scan_signals.raised = None
       /\ Len(scan_signals.value) = 1
       /\ WithinPositionLimit(scan_signals.value[1].capital_at_risk)

\* The symbols of a list of stocks, in order.
SymbolsOf(stocks) == [k \in 1..Len(stocks) |-> stocks[k].symbol]

\* The provider returned the symbol's fundamentals and they pass Layer 1.
FetchedAndPassedLayer1(symbol) ==
    LET data == data_client[symbol]
    IN  /\ data.fundamentals # <<>>
        /\ passes_layer1_criteria(
               IF data.mag7_correlation # <<>>
               THEN [data.fundamentals[1] EXCEPT
                        !.correlation_to_mag7 = data.mag7_correlation]
               ELSE data.fundamentals[1]).passes

\* The provider returned the symbol's technicals and they pass Layer 2.
FetchedAndPassedLayer2(symbol) ==
    LET data == data_client[symbol]
    IN  /\ data.technicals # <<>>
        /\ passes_layer2_criteria(data.technicals[1]).passes

\* The data client without the expirations whose chain cannot form a spread.
WithoutUnusableChains(symbol) ==
    [data_client EXCEPT ![symbol].expirations =
        SelectSeq(@, LAMBDA e : Len(e.put_contracts) >= 2)]

LegsOf(spread) ==
    IF spread.kind = "PutSpread" THEN <<spread.long_put, spread.short_put>>
    ELSE <<spread.long_call, spread.short_call>>

\* A constructor call that returned a spread.
Constructed ==
    /\ call_fn \in {"PutSpread", "CallSpread"}
    /\ call_result.raised = None

\* C11: every PutSpread or CallSpread that construction accepts has
\* strike_width = |difference of the leg strikes| > 0 with the short put above
\* the long put (the short call above the long call); a put credit spread has
\* max_loss = strike_width - net_premium_collected and max_profit =
\* net_premium_collected, a call debit spread max_profit = strike_width -
\* net_debit_paid and max_loss = net_debit_paid.
C11_SpreadInvariants ==
    Constructed
    => LET sp == call_result.value
           long == LegsOf(sp)[1]
           short == LegsOf(sp)[2]
       IN  /\ sp.strike_width = Abs(short.strike - long.strike)
           /\ sp.strike_width > 0
           /\ sp.kind = "PutSpread"
              => /\ short.strike > long.strike
                 /\ sp.max_loss = sp.strike_width - sp.net_premium_collected
                 /\ sp.max_profit = sp.net_premium_collected
           /\ sp.kind = "CallSpread"
              => /\ short.strike > long.strike
                 /\ sp.max_profit = sp.strike_width - sp.net_debit_paid
                 /\ sp.max_loss = sp.net_debit_paid

\* C12: when a Greek is available on both legs (a value of exactly 0
\* included) the spread's net delta, gamma, theta and vega are the long-leg
\* value minus the short-leg value, in both families, and agree with
\* calculate_spread_greeks on the same legs.
C12_NetGreeks ==
    /\ Constructed
       => LET sp == call_result.value
              long == LegsOf(sp)[1]
              short == LegsOf(sp)[2]
          IN  \A g \in {"delta", "gamma", "theta", "vega"} :
                (long[g] # <<>> /\ short[g] # <<>>)
                => /\ sp[g] = <<long[g][1] - short[g][1]>>
                   /\ LET both == calculate_spread_greeks(
                                      GreeksOfLeg(long, <<0>>), GreeksOfLeg(short, <<0>>),
                                      sp.kind = "PutSpread")
                      IN  both.raised = None => sp[g] = both.value[g]
    /\ (call_fn = "calculate_spread_greeks" /\ call_result.raised = None)
       => \A g \in GreekNames :
            call_result.value[g] = <<call_args[1][g][1] - call_args[2][g][1]>>

\* A put credit spread for the Layer-3 predicate, the short put at 95.
Layer3Put(short_delta, short_theta, iv_percentile, short_gamma, dte, long_strike, premium) ==
    PutSpreadNew(
        [symbol |-> "JPM",
         short_put |-> Contract("put", 95 * TicksPerDollar, <<600>>, <<640>>,
                                short_delta, short_theta, short_gamma,
                                iv_percentile, dte),
         long_put |-> Contract("put", long_strike * TicksPerDollar, <<100>>, <<120>>,
                               <<-8>>, <<-3>>, <<2>>, <<70>>, dte),
         strike_width |-> 1, net_premium_collected |-> premium,
         max_profit |-> 0, max_loss |-> 0, breakeven |-> 0, dte |-> dte]).value

\* A call debit spread for the Layer-3 predicate, the long call at 95.
Layer3Call(long_delta, long_theta, iv_percentile, long_gamma, dte, short_strike, debit) ==
    CallSpreadNew(
        [symbol |-> "JPM",
         long_call |-> Contract("call", 95 * TicksPerDollar, <<900>>, <<940>>,
                                long_delta, long_theta, long_gamma,
                                iv_percentile, dte),
         short_call |-> Contract("call", short_strike * TicksPerDollar, <<300>>, <<320>>,
                                 <<30>>, <<-1>>, <<2>>, <<40>>, dte),
         strike_width |-> 1, net_debit_paid |-> debit,
         max_profit |-> 0, max_loss |-> 0, breakeven |-> 0, dte |-> dte]).value

\* Spreads on, inside and outside every bound of the two predicates.
Layer3Spreads ==
    {Layer3Put(d, t, iv, g, dte, k, p) :
        d \in {<<>>, <<-18>>, <<-21>>}, t \in {<<>>, <<-10>>, <<-8>>},
        iv \in {<<>>, <<67>>, <<70>>}, g \in {<<3>>, <<7>>}, dte \in {30, 46},
        k \in {84, 90, 95}, p \in {140, 150}}
    \cup
    {Layer3Call(d, t, iv, g, dte, k, p) :
        d \in {<<>>, <<60>>, <<71>>}, t \in {<<>>, <<-4>>, <<-5>>},
        iv \in {<<>>, <<50>>, <<51>>}, g \in {<<3>>, <<9>>}, dte \in {59, 90},
        k \in {95, 100, 106}, p \in {333, 334}}

CallLayer3Criteria ==
    /\ call_fn = "none"
    /\ \E spread \in Layer3Spreads :
        Record("passes_layer3_criteria", <<spread>>, passes_layer3_criteria(spread))
    /\ UNCHANGED <<risk_cfg, filterVars, scanVars, portfolioVars>>

\* C13: for both families passes_layer3_criteria returns pass = true iff the
\* returned list is empty, and the list holds an entry for each violated
\* constraint: the controlling leg's delta window, the net theta threshold,
\* the IV-percentile threshold (a missing IV percentile is a violation), the
\* gamma ceiling |gamma| < 0.05, the days-to-expiration window, the strike
\* width band 5..10, and the premium-to-width floor 15% (credit) or the
\* reward-to-risk floor 2 (debit).
C13_Layer3Verdict ==
    call_fn = "passes_layer3_criteria"
    => LET sp == call_args[1]
           r == call_result.value
           has(msg) == msg \in Range(r.failures)
           put == sp.kind = "PutSpread"
           leg == IF put THEN sp.short_put ELSE sp.long_call
           band == 5 * TicksPerDollar <= sp.strike_width
                   /\ sp.strike_width <= 10 * TicksPerDollar
       IN  /\ call_result.raised = None
           /\ r.passes <=> r.failures = <<>>
           /\ leg.delta = <<>>
              => has(IF put THEN "Missing delta on short put"
                     ELSE "Missing delta on long call")
           /\ (put /\ leg.delta # <<>> /\ ~(-20 <= leg.delta[1] /\ leg.delta[1] <= -15))
              => has("Short put delta")
           /\ (~put /\ leg.delta # <<>> /\ ~(60 <= leg.delta[1] /\ leg.delta[1] <= 70))
              => has("Long call delta")
           /\ (put /\ sp.theta # <<>> /\ sp.theta[1] <= 5) => has("Theta")
           /\ (~put /\ sp.theta # <<>> /\ sp.theta[1] < -3) => has("Theta")
           /\ (put /\ (leg.iv_percentile = <<>> \/ leg.iv_percentile[1] <= 67))
              => has("IV percentile")
           /\ (~put /\ leg.iv_percentile = <<>>) => has("Missing IV percentile")
           /\ (~put /\ leg.iv_percentile # <<>>
                    /\ ~(30 <= leg.iv_percentile[1] /\ leg.iv_percentile[1] <= 50))
              => has("IV percentile")
           /\ (sp.gamma # <<>> /\ Abs(sp.gamma[1]) >= 5) => has("Gamma")
           /\ (put /\ ~(30 <= sp.dte /\ sp.dte <= 45)) => has("DTE")
           /\ (~put /\ ~(60 <= sp.dte /\ sp.dte <= 90)) => has("DTE")
           /\ ~band => has("Strike width")
           /\ (put /\ sp.strike_width > 0
                   /\ sp.net_premium_collected * 100 < 15 * sp.strike_width)
              => has("Premium/width ratio")
           /\ (~put /\ sp.max_loss > 0 /\ sp.max_profit < 2 * sp.max_loss)
              => has("Risk/reward")

\* ------------------------------------------ SpecCalc: the stock models
\* EPS readings in cents: missing, negative, zero and positive.
EpsReadings == {<<>>, <<-100>>, <<0>>, <<100>>, <<200>>}

\* A fundamentals snapshot with the given EPS readings, every other rule met.
EpsSnapshot(eps_current, eps_q1_ago, eps_q2_ago) ==
    [GoodFundamentals("JPM") EXCEPT !.correlation_to_mag7 = <<-35>>,
                                    !.eps_current = eps_current,
                                    !.eps_q1_ago = eps_q1_ago,
                                    !.eps_q2_ago = eps_q2_ago]

\* Snapshots on, inside and outside every bound of the seven rules.
Layer1Snapshots ==
    {[EpsSnapshot(eps[1], eps[2], eps[3]) EXCEPT
        !.pe_ratio = pe, !.market_cap = cap, !.correlation_to_mag7 = corr,
        !.sector = sector, !.debt_to_equity = de, !.roe = roe] :
        pe \in {<<>>, <<79>>, <<80>>, <<150>>, <<151>>}, cap \in {9, 10},
        corr \in {<<>>, <<-30>>, <<-31>>},
        sector \in {None, "Financials", "Technology"},
        eps \in {<<<<200>>, <<100>>, <<-100>>>>, <<<<200>>, <<100>>, <<0>>>>,
                 <<<<100>>, <<100>>, <<-100>>>>, <<<<200>>, <<>>, <<-100>>>>},
        de \in {<<>>, <<149>>, <<150>>}, roe \in {<<>>, <<120>>, <<121>>}}

CallLayer1Criteria ==
    /\ call_fn = "none"
    /\ \E f \in Layer1Snapshots :
        Record("passes_layer1_criteria", <<f>>, Returned(passes_layer1_criteria(f)))
    /\ UNCHANGED <<risk_cfg, filterVars, scanVars, portfolioVars>>

CallEpsGrowth ==
    /\ call_fn = "none"
    /\ \E eps_current \in EpsReadings, eps_q1_ago \in EpsReadings,
          eps_q2_ago \in EpsReadings :
        Record("eps_growth_positive_2q", <<eps_current, eps_q1_ago, eps_q2_ago>>,
               Returned(eps_growth_positive_2q(
                            EpsSnapshot(eps_current, eps_q1_ago, eps_q2_ago))))
    /\ UNCHANGED <<risk_cfg, filterVars, scanVars, portfolioVars>>

\* The rules of Layer 1 in the order passes_layer1_criteria reports them.
Layer1RuleOrder ==
    <<"P/E", "Market cap", "Mag7 correlation", "Sector", "EPS growth",
      "Debt-to-Equity", "ROE">>

\* The three readings are present and strictly decreasing going back in time.
EpsStrictlyGrowing(eps_current, eps_q1_ago, eps_q2_ago) ==
    /\ eps_current # <<>> /\ eps_q1_ago # <<>> /\ eps_q2_ago # <<>>
    /\ eps_current[1] > eps_q1_ago[1]
    /\ eps_q1_ago[1] > eps_q2_ago[1]

\* C14: passes_layer1_criteria passes iff all seven rules hold (P/E in
\* [8, 15], market cap >= 10B, Mag-7 correlation < -0.3, sector in the
\* allow-list, EPS growing over two quarters, debt/equity < 1.5, ROE > 12), a
\* missing value being a violation; it reports exactly the violated rules, in
\* the fixed order of the rules.
C14_Layer1Rules ==
    call_fn = "passes_layer1_criteria"
    => LET f == call_args[1]
           r == call_result.value
           holds == [rule \in Range(Layer1RuleOrder) |->
               CASE rule = "P/E" ->
                        f.pe_ratio # <<>> /\ 80 <= f.pe_ratio[1] /\ f.pe_ratio[1] <= 150
                 [] rule = "Market cap" -> f.market_cap >= 10
                 [] rule = "Mag7 correlation" ->
                        f.correlation_to_mag7 # <<>> /\ f.correlation_to_mag7[1] < -30
                 [] rule = "Sector" -> f.sector \in AllowedSectors
                 [] rule = "EPS growth" ->
                        EpsStrictlyGrowing(f.eps_current, f.eps_q1_ago, f.eps_q2_ago)
                 [] rule = "Debt-to-Equity" ->
                        f.debt_to_equity # <<>> /\ f.debt_to_equity[1] < 150
                 [] rule = "ROE" -> f.roe # <<>> /\ f.roe[1] > 120]
       IN  /\ r.passes <=> \A rule \in Range(Layer1RuleOrder) : holds[rule]
           /\ r.failures = SelectSeq(Layer1RuleOrder, LAMBDA rule : ~holds[rule])

\* C15: eps_growth_positive_2q is true iff all three readings are present and
\* eps_current > eps_q1_ago > eps_q2_ago, zero and negative readings
\* included.
C15_EpsGrowth ==
    call_fn = "eps_growth_positive_2q"
    => (call_result.value
        <=> EpsStrictlyGrowing(call_args[1], call_args[2], call_args[3]))

\* ------------------------------------------------ calculations/spreads.py
\* Spread values are whole percents.  A float argument is either a finite
\* number or NaN (a missing close price makes the last spread NaN).
Finite(x) == [nan |-> FALSE, value |-> x]

NaN == [nan |-> TRUE, value |-> 0]

\* A DataFrame of spread history: its rows' 'spread' values, and whether it
\* has a 'spread' column at all.
DataFrame(rows) == [has_spread |-> TRUE, rows |-> rows]

DataFrameWithoutSpread(rows) == [has_spread |-> FALSE, rows |-> rows]

LookAhead == 20

MinAnalogs == 5

DefaultLookbackDays == 252

\* A probability the estimator returns: NaN, or rational + sqrt(surd)
\* (the z-score |c - mean| / std is the square root of a fraction).
Exactly(r) == [nan |-> FALSE, rational |-> r, surd |-> Rat(0, 1)]

PlusRoot(r, s) == [nan |-> FALSE, rational |-> r, surd |-> s]

NaNResult == [nan |-> TRUE, rational |-> Rat(0, 1), surd |-> Rat(0, 1)]

RSub(a, b) == Rat(a[1] * b[2] - b[1] * a[2], a[2] * b[2])

RSq(a) == Rat(a[1] * a[1], a[2] * a[2])

RFloor(a) == a[1] \div a[2]

\* a < b, without a cross product when b is a whole number.
RLess(a, b) == IF b[2] = 1 THEN RFloor(a) < b[1] ELSE RLt(a, b)

\* rational + sqrt(surd) < k and rational + sqrt(surd) > k for a whole k.
ValueBelow(v, k) ==
    /\ RLess(v.rational, Rat(k, 1))
    /\ RLess(v.surd, RSq(RSub(Rat(k, 1), v.rational)))

\* a <= b, without a cross product when b is a whole number.
RLessEq(a, b) == IF b[2] = 1 THEN -((-a[1]) \div a[2]) <= b[1] ELSE RLe(a, b)

ValueAbove(v, k) ==
    \/ ~RLessEq(v.rational, Rat(k, 1))
    \/ ~RLessEq(v.surd, RSq(RSub(Rat(k, 1), v.rational)))

\* Python's min(a, b) and max(a, b) on floats: the first argument is kept
\* unless the second compares strictly below (above) it, so a NaN first
\* argument is returned as it is.
PyMinWith(v, k) ==
    IF v.nan THEN v ELSE IF ValueAbove(v, k) THEN Exactly(Rat(k, 1)) ELSE v

PyMaxWith(v, k) ==
    IF v.nan THEN v ELSE IF ValueBelow(v, k) THEN Exactly(Rat(k, 1)) ELSE v

RECURSIVE SumFirst(_, _)
SumFirst(s, k) == IF k = 0 THEN 0 ELSE s[k] + SumFirst(s, k - 1)

SumSeq(s) == SumFirst(s, Len(s))

SumSquares(s) == SumSeq([i \in 1..Len(s) |-> s[i] * s[i]])

\* DataFrame.tail(n)
TailRows(s, n) == SubSeq(s, Len(s) - Min(n, Len(s)) + 1, Len(s))

\* n * (n - 1) * variance of the column (pandas' std is the sample
\* standard deviation, ddof = 1; it is NaN for a single observation).
ScaledVariance(spread) ==
    Len(spread) * SumSquares(spread) - SumSeq(spread) * SumSeq(spread)

StdPositive(spread) == Len(spread) >= 2 /\ ScaledVariance(spread) > 0

\* abs(x - current_spread) < std * 0.5 for an observation x, compared by
\* squares; scaled_variance is n * (n - 1) * std^2.  Comparisons with a NaN
\* are false.
WithinHalfStd(x, current_spread, n, scaled_variance) ==
    /\ ~current_spread.nan
    /\ n >= 2
    /\ 4 * (x - current_spread.value) * (x - current_spread.value) * n * (n - 1)
         < scaled_variance

similar_extremes(spread, current_spread) ==
    LET scaled_variance == ScaledVariance(spread)
    IN  {i \in 1..Len(spread) :
           WithinHalfStd(spread[i], current_spread, Len(spread), scaled_variance)}

\* (abs(z_score) * 10) squared, z_score = (current_spread - mean) / std
\* when std > 0 and 0 otherwise.
ZScoreTimes10Squared(spread, current_spread) ==
    IF StdPositive(spread)
    THEN LET n == Len(spread)
             dev == n * current_spread.value - SumSeq(spread)
             z2 == Rat(dev * dev * (n - 1), n * ScaledVariance(spread))
         IN  Rat(100 * z2[1], z2[2])
    ELSE Rat(0, 1)

\* prob = min(50 + abs(z_score) * 10, 95)
ZScoreFallback(spread, current_spread) ==
    IF StdPositive(spread) /\ current_spread.nan
    THEN NaNResult
    ELSE PyMinWith(PlusRoot(Rat(50, 1), ZScoreTimes10Squared(spread, current_spread)), 95)

\* The loop body's test with the look-ahead bound off by one.
RevertedOffByOne(spread, current_spread, total, i) ==
    /\ i + LookAhead < Len(spread)
    /\ LET future_spread == spread[i + LookAhead]
           n == Len(spread)
           above_mean == n * current_spread.value > total
           below_mean == n * current_spread.value < total
       IN  \/ above_mean /\ future_spread < current_spread.value
           \/ below_mean /\ future_spread > current_spread.value

\* The loop body's test for the analog at position i (1-based here).
Reverted(spread, current_spread, total, i) ==
    /\ i + LookAhead <= Len(spread)
    /\ LET future_spread == spread[i + LookAhead]
           n == Len(spread)
           above_mean == n * current_spread.value > total
           below_mean == n * current_spread.value < total
       IN  \/ above_mean /\ future_spread < current_spread.value
           \/ below_mean /\ future_spread > current_spread.value

EmpiricalRate(spread, current_spread) ==
    LET analogs == similar_extremes(spread, current_spread)
        total == SumSeq(spread)
        reversions == Cardinality({i \in analogs :
                                     Reverted(spread, current_spread, total, i)})
    IN  Exactly(Rat(100 * reversions, Cardinality(analogs)))

UnclampedProbability(spread, current_spread) ==
    IF Cardinality(similar_extremes(spread, current_spread)) < MinAnalogs
    THEN ZScoreFallback(spread, current_spread)
    ELSE EmpiricalRate(spread, current_spread)

calculate_reversion_probability(spread_history, current_spread, lookback_days) ==
    IF Len(spread_history.rows) = 0 \/ Len(spread_history.rows) < lookback_days
    THEN Exactly(Rat(50, 1))
    ELSE IF ~spread_history.has_spread
    THEN Exactly(Rat(50, 1))     \* recent['spread'] raises KeyError: except branch
    ELSE LET spread == TailRows(spread_history.rows, lookback_days)
         IN  PyMinWith(PyMaxWith(UnclampedProbability(spread, current_spread), 30), 95)

\* --------------------------------------- SpecCalc: reversion probability
MaxSpreadValue == 1

MaxSegments == 2

SpreadValues == (0 - MaxSpreadValue)..MaxSpreadValue

SegmentLengths == {5, 10, 20}

Repeat(v, n) == [i \in 1..n |-> v]

RECURSIVE Concat(_)
Concat(ss) == IF ss = <<>> THEN <<>> ELSE Head(ss) \o Concat(Tail(ss))

\* Histories that hold a level for a while: up to MaxSegments runs.
Segments == {Repeat(v, n) : v \in SpreadValues, n \in SegmentLengths}

SpreadRows == {Concat(ss) : ss \in SeqsUpTo(Segments, MaxSegments)}

SpreadHistories ==
    {DataFrame(rows) : rows \in SpreadRows}
        \cup {DataFrameWithoutSpread(Repeat(0, 5))}

CurrentSpreads == {Finite(x) : x \in SpreadValues} \cup {NaN}

LookbackDays == {5, 30, DefaultLookbackDays}

CallReversionProbability ==
    /\ call_fn = "none"
    /\ \E spread_history \in SpreadHistories, current_spread \in CurrentSpreads,
          lookback_days \in LookbackDays :
        Record("calculate_reversion_probability",
               <<spread_history, current_spread, lookback_days>>,
               Returned(calculate_reversion_probability(
                            spread_history, current_spread, lookback_days)))
    /\ UNCHANGED <<risk_cfg, filterVars, scanVars, portfolioVars>>

InRange30To95(v) == ~v.nan /\ ~ValueBelow(v, 30) /\ ~ValueAbove(v, 95)

\* C16: for every spread history and every current value,
\* calculate_reversion_probability returns a value in [30, 95], whichever
\* path it takes (insufficient history, z-score fallback, empirical branch,
\* error path).
C16_ProbabilityRange ==
    call_fn = "calculate_reversion_probability"
    => InRange30To95(call_result.value)

\* The claim's reading of the estimator, from the statistics of the window.
WindowOf(args) == TailRows(args[1].rows, args[3])

MeanOf(spread) == Rat(SumSeq(spread), Len(spread))

\* Sample variance, from the deviations of the observations from the mean
\* (each scaled by the number of observations); only used for at least
\* two observations.
VarianceOf(spread) ==
    LET n == Len(spread)
        total == SumSeq(spread)
        scaled == [i \in 1..n |-> (n * spread[i] - total) * (n * spread[i] - total)]
    IN  Rat(SumSeq(scaled), n * n * (n - 1))

\* Positions of the observations less than half a standard deviation away
\* from the current value c.
AnalogsOf(spread, c) ==
    IF Len(spread) < 2 THEN {}
    ELSE LET v == VarianceOf(spread)
         IN  {i \in 1..Len(spread) :
                RLt(Rat(4 * (spread[i] - c) * (spread[i] - c), 1), v)}

\* The observation 20 positions after analog i exists and lies on the
\* mean's side of the current value.
MovedBackTowardMean(spread, mean, c, i) ==
    /\ i + 20 \in DOMAIN spread
    /\ \/ RLt(mean, Rat(c, 1)) /\ spread[i + 20] < c
       \/ RLt(Rat(c, 1), mean) /\ spread[i + 20] > c

\* (10 * |z|)^2 with z = (c - mean) / std, and z = 0 for a flat window.
TenZSquared(spread, c) ==
    IF Len(spread) < 2 \/ VarianceOf(spread)[1] = 0 THEN Rat(0, 1)
    ELSE LET d == RSq(RSub(Rat(c, 1), MeanOf(spread)))
             v == VarianceOf(spread)
             z2 == Rat(d[1] * v[2], d[2] * v[1])
         IN  Rat(100 * z2[1], z2[2])

ClaimedEstimate(spread, c) ==
    LET analogs == AnalogsOf(spread, c)
        mean == MeanOf(spread)
        ten_z_squared == TenZSquared(spread, c)
    IN  IF Cardinality(analogs) < 5
        THEN IF RLessEq(ten_z_squared, Rat(45 * 45, 1))
             THEN PlusRoot(Rat(50, 1), ten_z_squared)
             ELSE Exactly(Rat(95, 1))
        ELSE Exactly(Rat(100 * Cardinality({i \in analogs :
                                              MovedBackTowardMean(spread, mean, c, i)}),
                         Cardinality(analogs)))

Clamped(v) ==
    IF ValueBelow(v, 30) THEN Exactly(Rat(30, 1))
    ELSE IF ValueAbove(v, 95) THEN Exactly(Rat(95, 1))
    ELSE v

EstimatorRan ==
    /\ call_fn = "calculate_reversion_probability"
    /\ call_args[1].has_spread
    /\ ~call_args[2].nan
    /\ Len(call_args[1].rows) >= call_args[3]

\* C17: the analogs are the observations of the window within half a
\* standard deviation of the current value; with fewer than 5 analogs the
\* estimate is min(50 + 10*|z|, 95); otherwise it is 100 times the share of
\* analogs whose observation 20 positions later moved back toward the mean
\* (judged from the current value); the returned value is that estimate
\* clamped to [30, 95].
C17_EstimateFormula ==
    EstimatorRan
    => call_result.value = Clamped(ClaimedEstimate(WindowOf(call_args),
                                                   call_args[2].value))

\* The empirical branch ran and its rate lies strictly inside the clamp.
C17_Witness ==
    /\ EstimatorRan
    /\ Cardinality(AnalogsOf(WindowOf(call_args), call_args[2].value)) >= 5
    /\ call_result.value = Exactly(Rat(50, 1))
    /\ \E i \in AnalogsOf(WindowOf(call_args), call_args[2].value) :
           MovedBackTowardMean(WindowOf(call_args), MeanOf(WindowOf(call_args)),
                               call_args[2].value, i)

\* ------------------------------------- calculations/greeks.py (all Greeks)
\* Prices are whole dollars, the rate and the implied volatility whole
\* percents, the time to expiration hundredths of a year.  A returned Greek
\* is None, an exact number (hundredths), NaN, or a finite float the model
\* does not evaluate: norm.cdf(d1), norm.cdf(d1) - 1, or another expression
\* of finite operands.
GreekNone == [kind |-> "None", value |-> 0]

Exact(x) == [kind |-> "exact", value |-> x]

GreekNaN == [kind |-> "nan", value |-> 0]

CdfOfD1 == [kind |-> "cdf(d1)", value |-> 0]

CdfOfD1Minus1 == [kind |-> "cdf(d1)-1", value |-> 0]

FiniteFloat == [kind |-> "finite", value |-> 0]

AllGreeks(delta, gamma, theta, vega, rho) ==
    [delta |-> delta, gamma |-> gamma, theta |-> theta, vega |-> vega, rho |-> rho]

\* The sign of ln(spot / strike) + rate * time for spot / strike > 0, from
\* 1 - 1/x <= ln(x) <= x - 1; "unknown" where these bounds do not decide.
LogPlusDriftSign(spot_price, strike_price, time_to_expiration, risk_free_rate) ==
    LET s == Abs(spot_price)
        k == Abs(strike_price)
        drift == risk_free_rate * time_to_expiration
    IN  IF s = k
        THEN IF drift > 0 THEN "pos" ELSE IF drift < 0 THEN "neg" ELSE "zero"
        ELSE IF 10000 * (s - k) + drift * k < 0 THEN "neg"
        ELSE IF 10000 * (s - k) + drift * s > 0 THEN "pos"
        ELSE "unknown"

\* d1 as IEEE arithmetic gives it for time_to_expiration > 0 and a non-zero
\* strike: np.log of a negative ratio is NaN and of zero is -inf (warnings,
\* no exception); a float64 division by zero is +-inf or NaN.
D1Class(spot_price, strike_price, time_to_expiration, risk_free_rate, implied_volatility) ==
    LET ratio_sign == IF spot_price = 0 THEN 0
                      ELSE IF (spot_price > 0) = (strike_price > 0) THEN 1 ELSE -1
    IN  IF ratio_sign < 0 THEN "nan"
        ELSE IF ratio_sign = 0
             THEN IF implied_volatility < 0 THEN "+inf" ELSE "-inf"
        ELSE IF implied_volatility # 0 THEN "finite"
        ELSE LET sign == LogPlusDriftSign(spot_price, strike_price,
                                          time_to_expiration, risk_free_rate)
             IN  IF sign = "pos" THEN "+inf"
                 ELSE IF sign = "neg" THEN "-inf"
                 ELSE IF sign = "zero" THEN "nan"
                 ELSE "unknown"

\* norm.cdf(d1) and norm.cdf(d1) - 1
CallDeltaOf(d1) ==
    IF d1 = "nan" THEN GreekNaN
    ELSE IF d1 = "+inf" THEN Exact(100)
    ELSE IF d1 = "-inf" THEN Exact(0)
    ELSE CdfOfD1

PutDeltaOf(d1) ==
    IF d1 = "nan" THEN GreekNaN
    ELSE IF d1 = "+inf" THEN Exact(0)
    ELSE IF d1 = "-inf" THEN Exact(-100)
    ELSE CdfOfD1Minus1

\* norm.pdf(d1) / (spot_price * implied_volatility * np.sqrt(t)): the
\* denominator is zero only when d1 is not finite, and then pdf(d1) is 0 or
\* NaN, so the quotient is NaN.
GammaOf(d1, spot_price, implied_volatility) ==
    IF d1 = "nan" \/ spot_price = 0 \/ implied_volatility = 0
    THEN GreekNaN ELSE FiniteFloat

\* theta, vega and rho: products and sums of finite operands with
\* norm.pdf(d1), norm.cdf(d2), which are NaN exactly when d1 is.
OtherGreekOf(d1) == IF d1 = "nan" THEN GreekNaN ELSE FiniteFloat

calculate_all_greeks(spot_price, strike_price, time_to_expiration, risk_free_rate, implied_volatility, option_type) ==
    IF time_to_expiration <= 0
    THEN AllGreeks(IF option_type = "call"
                   THEN (IF spot_price > strike_price THEN Exact(100) ELSE Exact(0))
                   ELSE (IF spot_price < strike_price THEN Exact(-100) ELSE Exact(0)),
                   Exact(0), Exact(0), Exact(0), Exact(0))
    ELSE IF strike_price = 0
    THEN \* spot_price / strike_price raises ZeroDivisionError: except branch
         AllGreeks(GreekNone, GreekNone, GreekNone, GreekNone, GreekNone)
    ELSE LET d1 == D1Class(spot_price, strike_price, time_to_expiration,
                           risk_free_rate, implied_volatility)
         IN  AllGreeks(IF option_type = "call" THEN CallDeltaOf(d1) ELSE PutDeltaOf(d1),
                       GammaOf(d1, spot_price, implied_volatility),
                       OtherGreekOf(d1), OtherGreekOf(d1), OtherGreekOf(d1))

\* --------------------------------------------- SpecCalc: all Greeks
GreekSpots == {-100, 0, 90, 100, 110}

GreekStrikes == {-100, 0, 100}

GreekTimes == {-10, 0, 25}

GreekRates == {0, 5}

GreekVolatilities == {-20, 0, 25}

OptionTypes == {"call", "put"}

CallAllGreeks ==
    /\ call_fn = "none"
    /\ \E spot_price \in GreekSpots, strike_price \in GreekStrikes,
          time_to_expiration \in GreekTimes, risk_free_rate \in GreekRates,
          implied_volatility \in GreekVolatilities, option_type \in OptionTypes :
        /\ D1Class(spot_price, strike_price, time_to_expiration, risk_free_rate,
                   implied_volatility) # "unknown"
        /\ Record("calculate_all_greeks",
                  <<spot_price, strike_price, time_to_expiration, risk_free_rate,
                    implied_volatility, option_type>>,
                  Returned(calculate_all_greeks(spot_price, strike_price,
                               time_to_expiration, risk_free_rate,
                               implied_volatility, option_type)))
    /\ UNCHANGED <<risk_cfg, filterVars, scanVars, portfolioVars>>

\* The deltas calculate_all_greeks returns for the recorded inputs as a call
\* and as a put.
DeltaAs(option_type) ==
    calculate_all_greeks(call_args[1], call_args[2], call_args[3], call_args[4],
                         call_args[5], option_type).delta

\* call delta - put delta = 1: for exact numbers by subtraction, for the
\* unevaluated floats because cdf(d1) - (cdf(d1) - 1) = 1.
DeltaDifferenceIsOne(c, p) ==
    \/ c.kind = "exact" /\ p.kind = "exact" /\ c.value - p.value = 100
    \/ c.kind = "cdf(d1)" /\ p.kind = "cdf(d1)-1"

\* 0 <= call delta <= 1 and -1 <= put delta <= 0 (a cdf lies in [0, 1]).
CallDeltaInRange(c) ==
    \/ c.kind = "exact" /\ c.value \in 0..100
    \/ c.kind = "cdf(d1)"

PutDeltaInRange(p) ==
    \/ p.kind = "exact" /\ p.value \in (0 - 100)..0
    \/ p.kind = "cdf(d1)-1"

\* C18: for every spot, strike, rate, implied volatility and time to
\* expiration >= 0 (the expired branch and spot = strike included), the call
\* delta minus the put delta of calculate_all_greeks equals 1, the call delta
\* lies in [0, 1] and the put delta in [-1, 0].
C18_DeltaIdentity ==
    (call_fn = "calculate_all_greeks" /\ call_args[3] >= 0)
    => /\ DeltaDifferenceIsOne(DeltaAs("call"), DeltaAs("put"))
       /\ CallDeltaInRange(DeltaAs("call"))
       /\ PutDeltaInRange(DeltaAs("put"))

IsNonFinite(g) == g.kind = "nan"

DegenerateInput ==
    call_args[5] <= 0 \/ call_args[1] <= 0 \/ call_args[2] <= 0

\* C19: calculate_all_greeks never raises and never returns a non-finite
\* number; for time to expiration > 0 and a degenerate input (implied
\* volatility <= 0, spot <= 0 or strike <= 0) all five Greeks are None.
C19_GreeksUnavailable ==
    call_fn = "calculate_all_greeks"
    => /\ call_result.raised = None
       /\ \A g \in GreekNames : ~IsNonFinite(call_result.value[g])
       /\ (call_args[3] > 0 /\ DegenerateInput)
              => \A g \in GreekNames : call_result.value[g] = GreekNone

\* ------------------------------- SpecCalc: the risk scanner's construction
\* RiskManagementScanner.__init__: the arguments are stored as they come.
RiskManagementScanner(portfolio_size, max_position_size_percent, positions, sector_positions, min_expected_value) ==
    Returned([portfolio_size |-> portfolio_size,
              max_position_size_percent |-> max_position_size_percent,
              max_positions |-> positions,
              max_sector_positions |-> sector_positions,
              min_expected_value |-> min_expected_value])

\* Constructor arguments: portfolio sizes in ticks, position sizes in tenths
\* of a percent, limits as counts, minimum expected value in percent.
ScannerPortfolioSizes == {-1000 * TicksPerDollar, 0, 100000 * TicksPerDollar}

ScannerPositionSizes == {-25, 0, 25}

ScannerMaxPositions == {0, DefaultMaxPositions}

ScannerSectorLimits == {-1, 0, DefaultMaxSectorPositions}

\* RiskManagementScanner(...) followed by evaluate_spread of one spread, as
\* a scan does; the call's result holds the scanner built and the evaluation.
CallNewRiskManagementScanner ==
    /\ call_fn = "none"
    /\ \E portfolio_size \in ScannerPortfolioSizes,
          max_position_size_percent \in ScannerPositionSizes,
          positions \in ScannerMaxPositions,
          sector_positions \in ScannerSectorLimits,
          spread \in RiskSpreads, stock \in RiskStocks :
        LET scanner == RiskManagementScanner(portfolio_size, max_position_size_percent,
                           positions, sector_positions, 20)
        IN  Record("RiskManagementScanner",
                   <<portfolio_size, max_position_size_percent, positions,
                     sector_positions, spread, stock>>,
                   IF scanner.raised # None THEN scanner
                   ELSE Returned([scanner |-> scanner.value,
                                  evaluation |->
                                      evaluate_spread(scanner.value, spread, stock)]))
    /\ UNCHANGED <<risk_cfg, filterVars, scanVars, portfolioVars>>

\* The legal domain of a risk configuration.
LegalRiskConfiguration(portfolio_size, max_position_size_percent, sector_positions) ==
    /\ portfolio_size > 0
    /\ max_position_size_percent >= 0
    /\ sector_positions > 0

\* C23: constructing a RiskManagementScanner with a configuration outside
\* its legal domain (negative max_position_size_percent, non-positive
\* portfolio size or sector limit) raises, so that no spread is ever
\* evaluated under such a configuration.
C23_IllegalConfigurationRaises ==
    (/\ call_fn = "RiskManagementScanner"
     /\ ~LegalRiskConfiguration(call_args[1], call_args[2], call_args[4]))
    => call_result.raised # None

\* ------------------------------------ SpecCalc: the trade simulation
\* Capital and amounts are whole dollars, percentages are fractions.
\* The loop of _calculate_max_drawdown from position k on, with the running
\* peak and the largest drawdown so far.
RECURSIVE MaxDrawdownLoop(_, _, _, _)
MaxDrawdownLoop(capital_history, k, peak, best) ==
    IF k > Len(capital_history) THEN best
    ELSE LET capital == capital_history[k]
             new_peak == IF capital > peak THEN capital ELSE peak
             dd == new_peak - capital
             dd_percent == IF new_peak > 0 THEN Rat(dd * 100, new_peak) ELSE Rat(0, 1)
         IN  MaxDrawdownLoop(capital_history, k + 1, new_peak,
                 IF dd > best.max_drawdown
                 THEN [max_drawdown |-> dd, max_drawdown_percent |-> dd_percent]
                 ELSE best)

\* _calculate_max_drawdown with the peak left at the first capital.
RECURSIVE MaxDrawdownLoopFromStart(_, _, _, _)
MaxDrawdownLoopFromStart(capital_history, k, peak, best) ==
    IF k > Len(capital_history) THEN best
    ELSE LET dd == peak - capital_history[k]
             dd_percent == IF peak > 0 THEN Rat(dd * 100, peak) ELSE Rat(0, 1)
         IN  MaxDrawdownLoopFromStart(capital_history, k + 1, peak,
                 IF dd > best.max_drawdown
                 THEN [max_drawdown |-> dd, max_drawdown_percent |-> dd_percent]
                 ELSE best)

calculate_max_drawdown_from_start(capital_history) ==
    IF capital_history = <<>> THEN Raised("IndexError")
    ELSE Returned(MaxDrawdownLoopFromStart(capital_history, 1, capital_history[1],
                      [max_drawdown |-> 0, max_drawdown_percent |-> Rat(0, 1)]))

\* ExpectedValueCalculator._calculate_max_drawdown; capital_history[0] of an
\* empty history raises.
calculate_max_drawdown(capital_history) ==
    IF capital_history = <<>> THEN Raised("IndexError")
    ELSE Returned(MaxDrawdownLoop(capital_history, 1, capital_history[1],
                      [max_drawdown |-> 0, max_drawdown_percent |-> Rat(0, 1)]))

\* The loop of simulate_1000_trades; draws are the values random.random() *
\* 100 takes, one for each trade.
RECURSIVE SimulationLoop(_, _, _, _, _)
SimulationLoop(draws, win_rate, avg_win, avg_loss, run) ==
    IF draws = <<>> THEN run
    ELSE LET win == Head(draws) < win_rate
             profit == IF win THEN avg_win ELSE -avg_loss
         IN  SimulationLoop(Tail(draws), win_rate, avg_win, avg_loss,
                 [capital |-> run.capital + profit,
                  wins |-> IF win THEN run.wins + 1 ELSE run.wins,
                  losses |-> IF win THEN run.losses ELSE run.losses + 1,
                  total_profit |-> run.total_profit + profit,
                  capital_history |-> Append(run.capital_history, run.capital + profit)])

\* ExpectedValueCalculator.simulate_1000_trades over Len(draws) trades; the
\* total return divides by starting_capital.
simulate_1000_trades(win_rate, avg_win, avg_loss, starting_capital, draws) ==
    LET run == SimulationLoop(draws, win_rate, avg_win, avg_loss,
                   [capital |-> starting_capital, wins |-> 0, losses |-> 0,
                    total_profit |-> 0, capital_history |-> <<starting_capital>>])
    IN  IF starting_capital = 0 THEN Raised("ZeroDivisionError")
        ELSE Returned(
               [starting_capital |-> starting_capital,
                ending_capital |-> run.capital,
                total_profit |-> run.total_profit,
                total_return_percent |->
                    Rat((run.capital - starting_capital) * 100, starting_capital),
                wins |-> run.wins,
                losses |-> run.losses,
                actual_win_rate |-> Rat(run.wins * 100, Len(draws)),
                capital_history |-> run.capital_history,
                max_drawdown |-> calculate_max_drawdown(run.capital_history).value])

\* The capitals of a history and the longest history tried.
CapitalValues == {-100, 0, 100, 200}

MaxHistoryLen == 4

CapitalHistories == SeqsUpTo(CapitalValues, MaxHistoryLen) \ {<<>>}

\* num_trades of simulate_1000_trades, which the code sets to 1000: the
\* number of trades of a simulation here.
num_trades == 3

\* random.random() * 100 lies in [0, 100).
RandomDraws == {0, 50, 99}

SimulationWinRates == {0, 50, 100}

SimulationWins == {-50, 0, 100}

SimulationLosses == {0, 150}

SimulationCapitals == {0, 1000}

CallMaxDrawdown ==
    /\ call_fn = "none"
    /\ \E capital_history \in CapitalHistories :
        Record("_calculate_max_drawdown", <<capital_history>>,
               calculate_max_drawdown(capital_history))
    /\ UNCHANGED <<risk_cfg, filterVars, scanVars, portfolioVars>>

CallSimulateTrades ==
    /\ call_fn = "none"
    /\ \E win_rate \in SimulationWinRates, avg_win \in SimulationWins,
          avg_loss \in SimulationLosses, starting_capital \in SimulationCapitals,
          draws \in [1..num_trades -> RandomDraws] :
        Record("simulate_1000_trades",
               <<win_rate, avg_win, avg_loss, starting_capital, draws>>,
               simulate_1000_trades(win_rate, avg_win, avg_loss, starting_capital, draws))
    /\ UNCHANGED <<risk_cfg, filterVars, scanVars, portfolioVars>>

\* C24: a simulation returns with wins + losses = N and ending capital =
\* starting_capital + wins * avg_win - losses * avg_loss; with win rate 100
\* and avg_win >= 0 every trade is a win, the ending capital is
\* starting_capital + N * avg_win and the maximum drawdown is 0.
C24_SimulationTotals ==
    call_fn = "simulate_1000_trades"
    => LET win_rate == call_args[1]
           avg_win == call_args[2]
           avg_loss == call_args[3]
           starting_capital == call_args[4]
           N == Len(call_args[5])
       IN  /\ call_result.raised = None
           /\ call_result.value.wins + call_result.value.losses = N
           /\ call_result.value.ending_capital
                 = starting_capital + call_result.value.wins * avg_win
                                    - call_result.value.losses * avg_loss
           /\ (win_rate = 100 /\ avg_win >= 0)
                 => /\ call_result.value.wins = N
                    /\ call_result.value.losses = 0
                    /\ call_result.value.ending_capital = starting_capital + N * avg_win
                    /\ call_result.value.max_drawdown.max_drawdown = 0

\* The largest of the declines history[i] - history[j] over positions i <= j.
LargestDecline(history) ==
    LET declines == {history[pair[1]] - history[pair[2]] :
                        pair \in {q \in (1..Len(history)) \X (1..Len(history)) :
                                     q[1] <= q[2]}}
    IN  CHOOSE d \in declines : \A other \in declines : other <= d

\* C25: the max_drawdown _calculate_max_drawdown returns for a capital
\* history is the largest decline history[i] - history[j] over all positions
\* i <= j, and it is never negative.
C25_MaxDrawdownIsLargestDecline ==
    call_fn = "_calculate_max_drawdown"
    => /\ call_result.raised = None
       /\ call_result.value.max_drawdown = LargestDecline(call_args[1])
       /\ call_result.value.max_drawdown >= 0

\* A history that rises from 100 to 200 and falls to 0 afterwards: the
\* largest decline, 200, starts at the later peak.
C25_Witness ==
    /\ call_fn = "_calculate_max_drawdown"
    /\ call_args[1] = <<100, 200, 0>>
    /\ call_result.raised = None
    /\ call_result.value.max_drawdown = 200

\* ----------------------------------------------------------- SpecCalc
InitCalc == NoPass /\ NoScan /\ NoCall /\ NoPortfolio

NextCalc ==
    \/ CallNewPutSpread
    \/ CallNewCallSpread
    \/ CallSpreadGreeks
    \/ CallLayer3Criteria
    \/ CallLayer1Criteria
    \/ CallEpsGrowth
    \/ CallReversionProbability
    \/ CallAllGreeks
    \/ CallNewRiskManagementScanner
    \/ CallMaxDrawdown
    \/ CallSimulateTrades

SpecCalc == InitCalc /\ [][NextCalc]_vars

\* -------------------------------------------------------- models/trade.py
\* Prices and P&L are whole dollars.  A Trade object is known by its
\* trade_id; the lists of the portfolio hold references to Trade objects.
TradeIds == {"T1", "T2"}

MaxOpenPositions == 2

MaxClosedTrades == 2

ContractMultiplier == 100

\* Trade(...) as create_trade_signal builds it: status and outcome keep
\* their defaults.
NewTrade(spread_type, entry_price, capital_at_risk, take_profit, stop_loss) ==
    [spread_type |-> spread_type, quantity |-> 1, entry_price |-> entry_price,
     exit_price |-> <<>>, current_price |-> <<>>, unrealized_pnl |-> <<>>,
     realized_pnl |-> <<>>, pnl_percent |-> <<>>,
     stop_loss |-> stop_loss, take_profit |-> take_profit,
     profit_target_hit |-> FALSE, stop_loss_hit |-> FALSE,
     capital_at_risk |-> capital_at_risk,
     status |-> "pending", outcome |-> "pending"]

\* Trade.update_pnl
update_pnl(self, current_spread_price) ==
    LET unrealized_pnl ==
            IF self.spread_type = "put_spread"
            THEN (self.entry_price - current_spread_price) * self.quantity
                     * ContractMultiplier
            ELSE (current_spread_price - self.entry_price) * self.quantity
                     * ContractMultiplier
    IN  [self EXCEPT
            !.current_price = <<current_spread_price>>,
            !.unrealized_pnl = <<unrealized_pnl>>,
            !.pnl_percent = IF self.capital_at_risk > 0
                            THEN <<Rat(unrealized_pnl * 100, self.capital_at_risk)>>
                            ELSE @,
            !.profit_target_hit = IF self.take_profit # 0
                                     /\ unrealized_pnl >= self.take_profit
                                  THEN TRUE ELSE @,
            !.stop_loss_hit = IF self.stop_loss # 0
                                 /\ unrealized_pnl <= 0 - self.stop_loss
                              THEN TRUE ELSE @]

\* Trade.close_trade with the credit formula for both spread types.
close_trade_as_credit(self, exit_price) ==
    LET realized_pnl ==
            (self.entry_price - exit_price) * self.quantity * ContractMultiplier
    IN  [self EXCEPT
            !.exit_price = <<exit_price>>,
            !.status = "closed",
            !.realized_pnl = <<realized_pnl>>,
            !.pnl_percent = IF self.capital_at_risk > 0
                            THEN <<Rat(realized_pnl * 100, self.capital_at_risk)>>
                            ELSE @,
            !.outcome = IF realized_pnl > 0 THEN "win"
                        ELSE IF realized_pnl < 0 THEN "loss"
                        ELSE "breakeven"]

\* Trade.close_trade
close_trade(self, exit_price) ==
    LET realized_pnl ==
            IF self.spread_type = "put_spread"
            THEN (self.entry_price - exit_price) * self.quantity * ContractMultiplier
            ELSE (exit_price - self.entry_price) * self.quantity * ContractMultiplier
    IN  [self EXCEPT
            !.exit_price = <<exit_price>>,
            !.status = "closed",
            !.realized_pnl = <<realized_pnl>>,
            !.pnl_percent = IF self.capital_at_risk > 0
                            THEN <<Rat(realized_pnl * 100, self.capital_at_risk)>>
                            ELSE @,
            !.outcome = IF realized_pnl > 0 THEN "win"
                        ELSE IF realized_pnl < 0 THEN "loss"
                        ELSE "breakeven"]

\* Portfolio(...) as the position tracker page builds it.
NewPortfolio(total_capital, max_position_size_percent_tenths, max_open) ==
    [total_capital |-> total_capital,
     max_position_size_percent |-> max_position_size_percent_tenths,
     max_positions |-> max_open,
     open_trades |-> <<>>, closed_trades |-> <<>>,
     total_realized_pnl |-> 0, total_unrealized_pnl |-> 0,
     win_count |-> 0, loss_count |-> 0,
     win_rate |-> Rat(0, 1), total_return_percent |-> Rat(0, 1),
     capital_at_risk |-> 0]

\* Portfolio.calculate_metrics
calculate_metrics(self) ==
    [self EXCEPT
        !.win_rate = IF self.win_count + self.loss_count > 0
                     THEN Rat(self.win_count * 100, self.win_count + self.loss_count)
                     ELSE @,
        !.total_return_percent =
            IF self.total_capital > 0
            THEN Rat((self.total_realized_pnl + self.total_unrealized_pnl) * 100,
                     self.total_capital)
            ELSE @]

\* Portfolio.add_trade: whether the trade is accepted, and the portfolio
\* after the call.  max_position_size_percent is in tenths of a percent.
\* The guards of Portfolio.add_trade with the position count compared by <=.
AddTradeAcceptsAtLimit(self, trade) ==
    /\ Len(self.open_trades) <= self.max_positions
    /\ trade.capital_at_risk * 1000
           <= self.total_capital * self.max_position_size_percent

AddTradeAccepts(self, trade) ==
    /\ Len(self.open_trades) < self.max_positions
    /\ trade.capital_at_risk * 1000
           <= self.total_capital * self.max_position_size_percent

add_trade(self, trade_id, trade) ==
    IF AddTradeAccepts(self, trade)
    THEN [self EXCEPT !.open_trades = Append(@, trade_id),
                      !.capital_at_risk = @ + trade.capital_at_risk]
    ELSE self

\* The position of the first open trade with the given trade_id, 0 if none.
FirstOpenIndex(self, trade_id) ==
    IF \E i \in DOMAIN self.open_trades : self.open_trades[i] = trade_id
    THEN CHOOSE i \in DOMAIN self.open_trades :
            /\ self.open_trades[i] = trade_id
            /\ \A j \in 1..(i - 1) : self.open_trades[j] # trade_id
    ELSE 0

RemoveAt(s, i) == SubSeq(s, 1, i - 1) \o SubSeq(s, i + 1, Len(s))

\* Portfolio.close_trade without the release of the trade's capital at risk.
PortfolioAfterCloseKeepingRisk(self, i, closed) ==
    LET moved == [self EXCEPT
                    !.closed_trades = Append(@, self.open_trades[i]),
                    !.open_trades = RemoveAt(@, i)]
        counted == IF closed.realized_pnl[1] # 0
                   THEN [moved EXCEPT
                           !.total_realized_pnl = @ + closed.realized_pnl[1],
                           !.win_count = IF closed.outcome = "win" THEN @ + 1 ELSE @,
                           !.loss_count = IF closed.outcome = "loss" THEN @ + 1 ELSE @]
                   ELSE moved
    IN  calculate_metrics(counted)

\* Portfolio.available_capital
available_capital(self) == self.total_capital - self.capital_at_risk

\* Portfolio.close_trade for a trade found at position i, closed already.
PortfolioAfterClose(self, i, closed) ==
    LET moved == [self EXCEPT
                    !.closed_trades = Append(@, self.open_trades[i]),
                    !.open_trades = RemoveAt(@, i),
                    !.capital_at_risk = @ - closed.capital_at_risk]
        counted == IF closed.realized_pnl[1] # 0
                   THEN [moved EXCEPT
                           !.total_realized_pnl = @ + closed.realized_pnl[1],
                           !.win_count = IF closed.outcome = "win" THEN @ + 1 ELSE @,
                           !.loss_count = IF closed.outcome = "loss" THEN @ + 1 ELSE @]
                   ELSE moved
    IN  calculate_metrics(counted)

\* ----------------------------------------------- SpecPortfolio: actions
\* The trade signals of the last scan, in session order.
SessionTradeSignals == <<"T1", "T2">>

SignalTrades ==
    [t \in TradeIds |->
        IF t = "T1" THEN NewTrade("put_spread", 2, 200, 100, 200)
        ELSE NewTrade("call_spread", 2, 250, 150, 100)]

\* max_position_size_percent in tenths of a percent: 2.0 and 2.5.
PositionSizeLimits == {20, 25}

ExitPrices == {1, 2, 4}

UpdatePrices == {2, 3}

InitPortfolio ==
    /\ NoPass
    /\ NoScan
    /\ NoCall
    /\ trade_objects = SignalTrades
    /\ portfolio \in {NewPortfolio(10000, limit, MaxOpenPositions) :
                         limit \in PositionSizeLimits}

\* The "Add All Trade Signals to Portfolio" button: the loop over the
\* session's trade signals from position i on.
RECURSIVE AddAllFrom(_, _, _)
AddAllFrom(i, ts, pf) ==
    IF i > Len(SessionTradeSignals) THEN <<ts, pf>>
    ELSE LET t == SessionTradeSignals[i]
         IN  IF Len(pf.open_trades) < pf.max_positions
             THEN LET opened == [ts EXCEPT ![t].status = "open"]
                  IN  AddAllFrom(i + 1, opened, add_trade(pf, t, opened[t]))
             ELSE AddAllFrom(i + 1, ts, pf)

AddAllTradeSignals ==
    /\ portfolio # <<>>
    /\ trade_objects' = AddAllFrom(1, trade_objects, portfolio)[1]
    /\ portfolio' = AddAllFrom(1, trade_objects, portfolio)[2]
    /\ UNCHANGED <<filterVars, riskVars, scanVars>>

PortfolioAddTrade ==
    /\ portfolio # <<>>
    /\ \E t \in TradeIds :
        /\ portfolio' = add_trade(portfolio, t, trade_objects[t])
        /\ UNCHANGED trade_objects
    /\ UNCHANGED <<filterVars, riskVars, scanVars>>

PortfolioCloseTrade ==
    /\ portfolio # <<>>
    /\ Len(portfolio.closed_trades) < MaxClosedTrades
    /\ \E trade_id \in TradeIds, exit_price \in ExitPrices :
        LET i == FirstOpenIndex(portfolio, trade_id)
        IN  IF i = 0
            THEN UNCHANGED <<trade_objects, portfolio>>
            ELSE /\ trade_objects' = [trade_objects EXCEPT
                                 ![trade_id] = close_trade(@, exit_price)]
                 /\ portfolio' = PortfolioAfterClose(portfolio, i,
                                     close_trade(trade_objects[trade_id], exit_price))
    /\ UNCHANGED <<filterVars, riskVars, scanVars>>

TradeCloseTrade ==
    /\ portfolio # <<>>
    /\ \E t \in TradeIds, exit_price \in ExitPrices :
        trade_objects' = [trade_objects EXCEPT ![t] = close_trade(@, exit_price)]
    /\ UNCHANGED portfolio
    /\ UNCHANGED <<filterVars, riskVars, scanVars>>

TradeUpdatePnl ==
    /\ portfolio # <<>>
    /\ \E t \in TradeIds, current_spread_price \in UpdatePrices :
        trade_objects' = [trade_objects EXCEPT ![t] = update_pnl(@, current_spread_price)]
    /\ UNCHANGED portfolio
    /\ UNCHANGED <<filterVars, riskVars, scanVars>>

\* Portfolio.update_all_positions: the loop over open_trades from position
\* i on; current_prices maps some trade ids to prices.
RECURSIVE UpdateAllFrom(_, _, _, _)
UpdateAllFrom(i, ts, pf, current_prices) ==
    IF i > Len(pf.open_trades) THEN <<ts, pf>>
    ELSE LET t == pf.open_trades[i]
         IN  IF t \in DOMAIN current_prices
             THEN LET priced == [ts EXCEPT ![t] = update_pnl(@, current_prices[t])]
                      pnl == priced[t].unrealized_pnl[1]
                  IN  UpdateAllFrom(i + 1, priced,
                                    [pf EXCEPT !.total_unrealized_pnl = @ + pnl],
                                    current_prices)
             ELSE UpdateAllFrom(i + 1, ts, pf, current_prices)

update_all_positions(ts, pf, current_prices) ==
    LET looped == UpdateAllFrom(1, ts, [pf EXCEPT !.total_unrealized_pnl = 0],
                                current_prices)
    IN  <<looped[1], calculate_metrics(looped[2])>>

CurrentPrices == UNION {[ids -> UpdatePrices] : ids \in SUBSET TradeIds}

PortfolioUpdateAllPositions ==
    /\ portfolio # <<>>
    /\ \E current_prices \in CurrentPrices :
        /\ trade_objects' = update_all_positions(trade_objects, portfolio,
                                                 current_prices)[1]
        /\ portfolio' = update_all_positions(trade_objects, portfolio,
                                             current_prices)[2]
    /\ UNCHANGED <<filterVars, riskVars, scanVars>>

NextPortfolio ==
    \/ AddAllTradeSignals
    \/ PortfolioAddTrade
    \/ PortfolioCloseTrade
    \/ TradeCloseTrade
    \/ TradeUpdatePnl
    \/ PortfolioUpdateAllPositions

SpecPortfolio == InitPortfolio /\ [][NextPortfolio]_vars

\* The Portfolio's own operations only.
NextLedger ==
    \/ PortfolioAddTrade
    \/ PortfolioCloseTrade
    \/ PortfolioUpdateAllPositions

SpecLedger == InitPortfolio /\ [][NextLedger]_vars

\* ------------------------------------------------ SpecPortfolio: claims
OpenTradesAreOpen ==
    portfolio # <<>>
    => \A i \in DOMAIN portfolio.open_trades :
           trade_objects[portfolio.open_trades[i]].status = "open"

LifecycleStep ==
    \A t \in DOMAIN trade_objects :
        /\ trade_objects'[t].status # trade_objects[t].status
               => <<trade_objects[t].status, trade_objects'[t].status>>
                      \in {<<"pending", "open">>, <<"open", "closed">>,
                           <<"open", "expired">>}
        /\ trade_objects[t].status \in {"closed", "expired"}
               => /\ trade_objects'[t].status = trade_objects[t].status
                  /\ trade_objects'[t].realized_pnl = trade_objects[t].realized_pnl

\* C20: over any sequence of Portfolio.add_trade, Portfolio.close_trade,
\* Trade.close_trade and Trade.update_pnl (and the page's add-all button), a
\* trade's status changes only along PENDING -> OPEN -> CLOSED or EXPIRED:
\* every trade held in open_trades has status OPEN, CLOSED is entered only
\* from OPEN, and a CLOSED or EXPIRED trade never changes status or realized
\* P&L again.
C20_TradeLifecycle == []OpenTradesAreOpen /\ [][LifecycleStep]_vars

\* The P&L of a position entered at `entry` and priced at `price`: a put
\* credit spread gains when the price falls, a call debit spread when it
\* rises.
DirectionalPnl(spread_type, entry, price, quantity) ==
    IF spread_type = "put_spread"
    THEN (entry - price) * quantity * 100
    ELSE (price - entry) * quantity * 100

OutcomeOf(pnl) ==
    IF pnl > 0 THEN "win" ELSE IF pnl < 0 THEN "loss" ELSE "breakeven"

\* C21: closing a put credit spread sets realized_pnl = (entry_price -
\* exit_price) * quantity * 100, closing a call debit spread sets it to
\* (exit_price - entry_price) * quantity * 100, update_pnl sets the
\* unrealized P&L by the same formulas, and the outcome is WIN, LOSS or
\* BREAKEVEN exactly as realized_pnl is > 0, < 0 or = 0.
C21_DirectionalPnl ==
    portfolio # <<>>
    => \A t \in DOMAIN trade_objects :
        LET trade == trade_objects[t]
        IN  /\ trade.exit_price # <<>>
                => /\ trade.realized_pnl
                        = <<DirectionalPnl(trade.spread_type, trade.entry_price,
                                           trade.exit_price[1], trade.quantity)>>
                   /\ trade.outcome = OutcomeOf(trade.realized_pnl[1])
            /\ trade.current_price # <<>>
                => trade.unrealized_pnl
                       = <<DirectionalPnl(trade.spread_type, trade.entry_price,
                                          trade.current_price[1], trade.quantity)>>
            /\ trade.exit_price = <<>>
                => trade.realized_pnl = <<>> /\ trade.outcome = "pending"

\* Both spread types closed at the same falling price: the put spread won,
\* the call spread lost; and both were priced by update_pnl.
C21_Witness ==
    /\ portfolio # <<>>
    /\ trade_objects["T1"].exit_price = <<1>>
    /\ trade_objects["T1"].outcome = "win"
    /\ trade_objects["T2"].exit_price = <<1>>
    /\ trade_objects["T2"].outcome = "loss"
    /\ trade_objects["T1"].unrealized_pnl = <<0 - 100>>
    /\ trade_objects["T2"].unrealized_pnl = <<100>>

\* ---------------------------------------------------- SpecLedger: claims
\* The limits as the claim states them: fewer open trades than
\* max_positions, and capital at risk at most total_capital *
\* max_position_size_percent / 100 (the percent is held in tenths).
WithinLimits(pf, trade) ==
    /\ Len(pf.open_trades) < pf.max_positions
    /\ RLe(Rat(trade.capital_at_risk, 1),
           Rat(pf.total_capital * pf.max_position_size_percent, 1000))

\* C26: add_trade appends the trade (and returns True) exactly when the
\* number of open trades is below max_positions and the trade's capital at
\* risk is at most total_capital * max_position_size_percent / 100;
\* otherwise it returns False and leaves the portfolio unchanged; the number
\* of open trades never exceeds max_positions.
C26_AddWithinLimits ==
    portfolio # <<>>
    => /\ Len(portfolio.open_trades) <= portfolio.max_positions
       /\ \A t \in TradeIds :
            /\ AddTradeAccepts(portfolio, trade_objects[t])
                   <=> WithinLimits(portfolio, trade_objects[t])
            /\ WithinLimits(portfolio, trade_objects[t])
                   => add_trade(portfolio, t, trade_objects[t]).open_trades
                          = Append(portfolio.open_trades, t)
            /\ ~WithinLimits(portfolio, trade_objects[t])
                   => add_trade(portfolio, t, trade_objects[t]) = portfolio

\* The portfolio is full, and one trade is over the position-size limit.
C26_Witness ==
    /\ portfolio # <<>>
    /\ Len(portfolio.open_trades) = portfolio.max_positions
    /\ \E t \in TradeIds :
           trade_objects[t].capital_at_risk * 1000
               > portfolio.total_capital * portfolio.max_position_size_percent

\* The sum of a field over the trades a list refers to; an unset P&L
\* counts as 0.
RECURSIVE SumOver(_, _, _)
SumOver(ids, ts, field) ==
    IF ids = <<>> THEN 0
    ELSE (IF field = "capital_at_risk" THEN ts[Head(ids)][field]
          ELSE IF ts[Head(ids)][field] = <<>> THEN 0
          ELSE ts[Head(ids)][field][1])
         + SumOver(Tail(ids), ts, field)

\* C27: after any sequence of add_trade and close_trade calls,
\* Portfolio.capital_at_risk is the sum of capital_at_risk over the trades in
\* open_trades, and available_capital() is total_capital minus that sum.
C27_CapitalAtRiskSum ==
    portfolio # <<>>
    => /\ portfolio.capital_at_risk
            = SumOver(portfolio.open_trades, trade_objects, "capital_at_risk")
       /\ available_capital(portfolio)
            = portfolio.total_capital
                - SumOver(portfolio.open_trades, trade_objects, "capital_at_risk")

\* Two trades are open after another one was closed.
C27_Witness ==
    /\ portfolio # <<>>
    /\ Len(portfolio.open_trades) = 2
    /\ Len(portfolio.closed_trades) >= 1
    /\ portfolio.capital_at_risk = 450

\* C28: no trade in open_trades has status CLOSED, and no trade is in both
\* open_trades and closed_trades.
C28_OpenAndClosedDisjoint ==
    portfolio # <<>>
    => /\ \A i \in DOMAIN portfolio.open_trades :
            trade_objects[portfolio.open_trades[i]].status # "closed"
       /\ Range(portfolio.open_trades) \cap Range(portfolio.closed_trades) = {}

\* C29: total_unrealized_pnl is the sum of unrealized_pnl over the trades in
\* open_trades.
C29_UnrealizedSum ==
    portfolio # <<>>
    => portfolio.total_unrealized_pnl
           = SumOver(portfolio.open_trades, trade_objects, "unrealized_pnl")

NumWithOutcome(ids, ts, outcome) ==
    Cardinality({i \in DOMAIN ids : ts[ids[i]].outcome = outcome})

\* C30: total_realized_pnl is the sum of realized_pnl over closed_trades,
\* win_count and loss_count are the numbers of closed trades with outcome WIN
\* and LOSS, and win_rate is 100 * win_count / (win_count + loss_count)
\* whenever that denominator is not zero.
C30_RealizedTotals ==
    portfolio # <<>>
    => /\ portfolio.total_realized_pnl
            = SumOver(portfolio.closed_trades, trade_objects, "realized_pnl")
       /\ portfolio.win_count
            = NumWithOutcome(portfolio.closed_trades, trade_objects, "win")
       /\ portfolio.loss_count
            = NumWithOutcome(portfolio.closed_trades, trade_objects, "loss")
       /\ portfolio.win_count + portfolio.loss_count > 0
            => portfolio.win_rate
                   = Rat(100 * portfolio.win_count,
                         portfolio.win_count + portfolio.loss_count)

====
